---- MODULE Spec2Model ----
(***************************************************************************)
(* FormVault secure document storage: SecureFileStorage (validation,      *)
(* encrypted names, local / S3 storage, integrity verification) and the   *)
(* FileService layer that persists File records around it.                *)
(*                                                                         *)
(* Byte strings and text are sequences of character codes.  An optional   *)
(* value is a sequence of length at most one: None is <<>>, Some(x) is    *)
(* <<x>>.                                                                  *)
(***************************************************************************)
EXTENDS Integers, Sequences, FiniteSets, TLC

None == <<>>
Some(x) == <<x>>

(***************************************************************************)
(* Bounds of the model.                                                    *)
(***************************************************************************)
\* number of calls begun, and of rows the admin view saves, in one behaviour
MaxSteps == 3
\* number of distinct values secrets.token_hex / the Fernet IV can take
MaxRand == 2
\* number of store_file calls in flight at once
MaxCalls == 2

(***************************************************************************)
(* Text helpers.  A text is a sequence of code points below 2048, a byte  *)
(* string a sequence of bytes.                                             *)
(***************************************************************************)
\* the element of a one-element set
Only(S) == CHOOSE x \in S : TRUE

Max(S) == CHOOSE x \in S : \A y \in S : y <= x

Min(S) == CHOOSE x \in S : \A y \in S : x <= y

\* bytes.lower() on one byte: only A-Z change
LowerByte(c) == IF c >= 65 /\ c <= 90 THEN c + 32 ELSE c

\* bytes.lower()
LowerBytes(s) == [i \in 1..Len(s) |-> LowerByte(s[i])]

\* the code points from 128 to 2047 that str.lower() changes into one other
\* code point, as runs <<first, last, step, offset>>
LowerRuns ==
    <<
       <<192, 214, 1, 32>>, <<216, 222, 1, 32>>, <<256, 302, 2, 1>>, <<306, 310, 2, 1>>,
       <<313, 327, 2, 1>>, <<330, 374, 2, 1>>, <<376, 376, 1, -121>>, <<377, 381, 2, 1>>,
       <<385, 385, 1, 210>>, <<386, 388, 2, 1>>, <<390, 390, 1, 206>>, <<391, 391, 1, 1>>,
       <<393, 394, 1, 205>>, <<395, 395, 1, 1>>, <<398, 398, 1, 79>>, <<399, 399, 1, 202>>,
       <<400, 400, 1, 203>>, <<401, 401, 1, 1>>, <<403, 403, 1, 205>>, <<404, 404, 1, 207>>,
       <<406, 406, 1, 211>>, <<407, 407, 1, 209>>, <<408, 408, 1, 1>>, <<412, 412, 1, 211>>,
       <<413, 413, 1, 213>>, <<415, 415, 1, 214>>, <<416, 420, 2, 1>>, <<422, 422, 1, 218>>,
       <<423, 423, 1, 1>>, <<425, 425, 1, 218>>, <<428, 428, 1, 1>>, <<430, 430, 1, 218>>,
       <<431, 431, 1, 1>>, <<433, 434, 1, 217>>, <<435, 437, 2, 1>>, <<439, 439, 1, 219>>,
       <<440, 440, 1, 1>>, <<444, 444, 1, 1>>, <<452, 452, 1, 2>>, <<453, 453, 1, 1>>,
       <<455, 455, 1, 2>>, <<456, 456, 1, 1>>, <<458, 458, 1, 2>>, <<459, 475, 2, 1>>,
       <<478, 494, 2, 1>>, <<497, 497, 1, 2>>, <<498, 500, 2, 1>>, <<502, 502, 1, -97>>,
       <<503, 503, 1, -56>>, <<504, 542, 2, 1>>, <<544, 544, 1, -130>>, <<546, 562, 2, 1>>,
       <<570, 570, 1, 10795>>, <<571, 571, 1, 1>>, <<573, 573, 1, -163>>, <<574, 574, 1, 10792>>,
       <<577, 577, 1, 1>>, <<579, 579, 1, -195>>, <<580, 580, 1, 69>>, <<581, 581, 1, 71>>,
       <<582, 590, 2, 1>>, <<880, 882, 2, 1>>, <<886, 886, 1, 1>>, <<895, 895, 1, 116>>,
       <<902, 902, 1, 38>>, <<904, 906, 1, 37>>, <<908, 908, 1, 64>>, <<910, 911, 1, 63>>,
       <<913, 929, 1, 32>>, <<931, 939, 1, 32>>, <<975, 975, 1, 8>>, <<984, 1006, 2, 1>>,
       <<1012, 1012, 1, -60>>, <<1015, 1015, 1, 1>>, <<1017, 1017, 1, -7>>, <<1018, 1018, 1, 1>>,
       <<1021, 1023, 1, -130>>, <<1024, 1039, 1, 80>>, <<1040, 1071, 1, 32>>, <<1120, 1152, 2, 1>>,
       <<1162, 1214, 2, 1>>, <<1216, 1216, 1, 15>>, <<1217, 1229, 2, 1>>, <<1232, 1326, 2, 1>>,
       <<1329, 1366, 1, 48>>
    >>

\* the code points below 2048 with the Case_Ignorable property, as ranges
CaseIgnorableRanges ==
    <<
       <<39, 39>>, <<46, 46>>, <<58, 58>>, <<94, 94>>, <<96, 96>>, <<168, 168>>,
       <<173, 173>>, <<175, 175>>, <<180, 180>>, <<183, 184>>, <<688, 879>>, <<884, 885>>,
       <<890, 890>>, <<900, 901>>, <<903, 903>>, <<1155, 1161>>, <<1369, 1369>>, <<1375, 1375>>,
       <<1425, 1469>>, <<1471, 1471>>, <<1473, 1474>>, <<1476, 1477>>, <<1479, 1479>>, <<1524, 1524>>,
       <<1536, 1541>>, <<1552, 1562>>, <<1564, 1564>>, <<1600, 1600>>, <<1611, 1631>>, <<1648, 1648>>,
       <<1750, 1757>>, <<1759, 1768>>, <<1770, 1773>>, <<1807, 1807>>, <<1809, 1809>>, <<1840, 1866>>,
       <<1958, 1968>>, <<2027, 2037>>, <<2042, 2042>>, <<2045, 2045>>
    >>

\* the code points below 2048 that are cased and not case-ignorable
CasedRanges ==
    <<
       <<65, 90>>, <<97, 122>>, <<170, 170>>, <<181, 181>>, <<186, 186>>, <<192, 214>>,
       <<216, 246>>, <<248, 442>>, <<444, 447>>, <<452, 659>>, <<661, 687>>, <<880, 883>>,
       <<886, 887>>, <<891, 893>>, <<895, 895>>, <<902, 902>>, <<904, 906>>, <<908, 908>>,
       <<910, 929>>, <<931, 1013>>, <<1015, 1153>>, <<1162, 1327>>, <<1329, 1366>>, <<1376, 1416>>
    >>


InRanges(c, ranges) ==
    \E i \in 1..Len(ranges) : ranges[i][1] <= c /\ c <= ranges[i][2]

\* the Case_Ignorable property, and the Cased property of the characters
\* that are not case-ignorable
IsCaseIgnorable(c) == InRanges(c, CaseIgnorableRanges)

IsCased(c) == InRanges(c, CasedRanges)

\* str.lower() of the one-character text chr(c): a text, of two characters
\* for U+0130
LowerCode(c) ==
    IF c < 128 THEN <<LowerByte(c)>>
    ELSE IF c = 304 THEN <<105, 775>>
    ELSE LET hits == { i \in 1..Len(LowerRuns) :
                         /\ LowerRuns[i][1] <= c
                         /\ c <= LowerRuns[i][2]
                         /\ (c - LowerRuns[i][1]) % LowerRuns[i][3] = 0 }
         IN IF hits = {} THEN <<c>>
            ELSE <<c + LowerRuns[CHOOSE i \in hits : TRUE][4]>>

\* the capital sigma at s[i] is final: the nearest character before it that
\* is not case-ignorable is cased, and the nearest one after it is not
FinalSigma(s, i) ==
    LET before == { j \in 1..(i - 1) : ~ IsCaseIgnorable(s[j]) }
        after == { j \in (i + 1)..Len(s) : ~ IsCaseIgnorable(s[j]) }
    IN /\ before # {}
       /\ IsCased(s[Max(before)])
       /\ after = {} \/ ~ IsCased(s[Min(after)])

RECURSIVE LowerFrom(_, _)
LowerFrom(s, i) ==
    IF i > Len(s) THEN <<>>
    ELSE (IF s[i] = 931 THEN <<IF FinalSigma(s, i) THEN 962 ELSE 963>>
          ELSE LowerCode(s[i])) \o LowerFrom(s, i + 1)

\* str.lower()
Lower(s) ==
    IF \A i \in 1..Len(s) : s[i] < 128 THEN LowerBytes(s) ELSE LowerFrom(s, 1)

\* bytes.startswith
StartsWith(s, p) == Len(p) <= Len(s) /\ SubSeq(s, 1, Len(p)) = p

\* `p in s` for byte strings
Contains(s, p) ==
    \E i \in 1..(Len(s) - Len(p) + 1) : SubSeq(s, i, i + Len(p) - 1) = p

\* index of the last "." (46) of s, 0 when there is none
LastDot(s) ==
    IF \E i \in 1..Len(s) : s[i] = 46
    THEN CHOOSE i \in 1..Len(s) : s[i] = 46 /\ \A j \in (i+1)..Len(s) : s[j] # 46
    ELSE 0

\* pathlib: Path(fn).name, the last of the components between "/" (47)
\* that is neither empty nor ".", the empty text when there is none
RECURSIVE PathName(_)
PathName(fn) ==
    LET slashes == { i \in 1..Len(fn) : fn[i] = 47 }
        start == IF slashes = {} THEN 0 ELSE Max(slashes)
        component == SubSeq(fn, start + 1, Len(fn))
    IN IF component # <<>> /\ component # <<46>> THEN component
       ELSE IF start = 0 THEN <<>>
       ELSE PathName(SubSeq(fn, 1, start - 1))

\* pathlib: Path(fn).suffix, from the last dot of the name on, unless that
\* dot leads or ends the name
Suffix(fn) ==
    LET name == PathName(fn)
        d == LastDot(name)
    IN IF d > 1 /\ d < Len(name) THEN SubSeq(name, d, Len(name)) ELSE <<>>

\* pathlib: Path(fn).stem, the name without its suffix
Stem(fn) ==
    LET name == PathName(fn)
        d == LastDot(name)
    IN IF d > 1 /\ d < Len(name) THEN SubSeq(name, 1, d - 1) ELSE name

(***************************************************************************)
(* Settings (core/config.py, mocked by the tests for the storage fields). *)
(***************************************************************************)
MAX_FILE_SIZE == 5 * 1024 * 1024

ALLOWED_FILE_TYPES == <<"image/jpeg", "image/png", "application/pdf">>

\* bytes of the header the scan reads
HeaderLen == 1024

InSeq(x, s) == \E i \in 1..Len(s) : s[i] = x

(***************************************************************************)
(* Exceptions (core/exceptions.py): a raised exception is a record of its *)
(* class and the arguments that make its message and details.             *)
(***************************************************************************)
Exc(cls, args) == [cls |-> cls, args |-> args]

\* subclasses of FileUploadException, itself included
IsFileUploadException(e) ==
    e.cls \in {"FileUploadException", "FileSizeException",
               "FileTypeException", "MalwareDetectedException"}

(***************************************************************************)
(* SecureFileStorage.validate_file and its two helpers.  An upload is     *)
(* [filename, content_type, size, content, pos]: filename and size are    *)
(* optional, content is what file.file holds and pos its offset.          *)
(* Each stage returns None or Some(exception).                            *)
(***************************************************************************)
allowed_extensions ==
    { <<46, 106, 112, 103>>,          \* .jpg
      <<46, 106, 112, 101, 103>>,     \* .jpeg
      <<46, 112, 110, 103>>,          \* .png
      <<46, 112, 100, 102>> }         \* .pdf

suspicious_patterns ==
    << <<60, 115, 99, 114, 105, 112, 116>>,                   \* <script
       <<106, 97, 118, 97, 115, 99, 114, 105, 112, 116, 58>>, \* javascript:
       <<118, 98, 115, 99, 114, 105, 112, 116, 58>>,          \* vbscript:
       <<111, 110, 108, 111, 97, 100, 61>>,                   \* onload=
       <<111, 110, 101, 114, 114, 111, 114, 61>>,             \* onerror=
       <<60, 63, 112, 104, 112>>,                             \* <?php
       <<60, 37>>,                                            \* <%
       <<101, 120, 101, 99, 40>>,                             \* exec(
       <<115, 121, 115, 116, 101, 109, 40>>,                  \* system(
       <<115, 104, 101, 108, 108, 95, 101, 120, 101, 99, 40>> \* shell_exec(
    >>

signatures ==
    [t \in {"image/jpeg", "image/png", "application/pdf"} |->
        CASE t = "image/jpeg" -> { <<255, 216, 255>> }
          [] t = "image/png" -> { <<137, 80, 78, 71, 13, 10, 26, 10>> }
          [] t = "application/pdf" -> { <<37, 80, 68, 70, 45>> }]

\* file.file.tell(), file.file.seek(p) and file.file.read(n) on the stream
\* of an upload: read returns the bytes from the offset on, at most n, and
\* leaves the offset after them
Tell(file) == file.pos

Seek(file, p) == [file EXCEPT !.pos = p]

Read(file, n) ==
    LET from == IF file.pos < Len(file.content) THEN file.pos ELSE Len(file.content)
        to == IF from + n < Len(file.content) THEN from + n ELSE Len(file.content)
    IN [data |-> SubSeq(file.content, from + 1, to),
        file |-> [file EXCEPT !.pos = IF file.pos < to THEN to ELSE file.pos]]

\* file.file.seek(0); file.file.read(1024)
ReadHeader(file) == Read(Seek(file, 0), HeaderLen).data

\* a signature check that accepts the magic number of any known type
validate_file_signature_any(header, content_type) ==
    IF content_type \in DOMAIN signatures
       /\ ~ \E t \in DOMAIN signatures :
              \E sig \in signatures[t] : StartsWith(header, sig)
    THEN Some(Exc("FileTypeException", <<"signature", content_type>>))
    ELSE None

validate_file_signature(header, content_type) ==
    IF content_type \in DOMAIN signatures
       /\ ~ \E sig \in signatures[content_type] : StartsWith(header, sig)
    THEN Some(Exc("FileTypeException", <<"signature", content_type>>))
    ELSE None

\* a scan that looks for the patterns in the header as it was read, without
\* lower-casing it
scan_header_cased(header, content_type) ==
    LET hits == { i \in 1..Len(suspicious_patterns) :
                    Contains(header, suspicious_patterns[i]) }
    IN IF hits # {}
       THEN LET first == CHOOSE i \in hits : \A j \in hits : i <= j
            IN Some(Exc("MalwareDetectedException", <<suspicious_patterns[first]>>))
       ELSE validate_file_signature(header, content_type)

\* the exception _scan_for_malware ends with, from the header it has read
scan_header(header, content_type) ==
    LET header_lower == LowerBytes(header)
        hits == { i \in 1..Len(suspicious_patterns) :
                    Contains(header_lower, suspicious_patterns[i]) }
    IN IF hits # {}
       THEN LET first == CHOOSE i \in hits : \A j \in hits : i <= j
            IN Some(Exc("MalwareDetectedException", <<suspicious_patterns[first]>>))
       ELSE validate_file_signature(header, content_type)

\* a scan that leaves the stream where the read ended
scan_for_malware_no_restore(file) ==
    LET at_start == Seek(file, 0)
        rd == Read(at_start, HeaderLen)
    IN [exc |-> scan_header(rd.data, file.content_type),
        file |-> rd.file,
        nread |-> Len(rd.data),
        read_at |-> Tell(at_start)]

\* _scan_for_malware on the stream: [exc, file, nread, read_at] are the
\* exception, the stream it leaves, the number of bytes it has read and the
\* offset it has read them from
scan_for_malware_run(file) ==
    LET original_position == Tell(file)
        at_start == Seek(file, 0)
        rd == Read(at_start, HeaderLen)
        restored == Seek(rd.file, original_position)
    IN [exc |-> scan_header(rd.data, file.content_type),
        file |-> restored,
        nread |-> Len(rd.data),
        read_at |-> Tell(at_start)]

scan_for_malware(file) == scan_for_malware_run(file).exc

\* an exception raised before the stream is touched
Unread(exc, file) == [exc |-> exc, file |-> file, nread |-> 0, read_at |-> Tell(file)]

\* validate_file with one slip: "size_ge" rejects a size equal to the
\* maximum, "type_first" tests the type before the size, "scan_first"
\* scans before the tests
validate_file_slip(file, slip) ==
    LET too_big == file.size # None /\ file.size[1] # 0
                      /\ IF slip = "size_ge" THEN file.size[1] >= MAX_FILE_SIZE
                         ELSE file.size[1] > MAX_FILE_SIZE
        size_exc == Some(Exc("FileSizeException", <<MAX_FILE_SIZE, file.size[1]>>))
        bad_type == ~ InSeq(file.content_type, ALLOWED_FILE_TYPES)
        type_exc == Some(Exc("FileTypeException", <<"type", file.content_type>>))
        ext == Lower(Suffix(file.filename[1]))
        bad_ext == file.filename # None /\ file.filename[1] # <<>>
                      /\ ext \notin allowed_extensions
        scanned == scan_for_malware_run(file)
    IN IF slip = "scan_first" /\ scanned.exc # None THEN scanned
       ELSE IF slip = "type_first" /\ bad_type THEN Unread(type_exc, file)
       ELSE IF too_big THEN Unread(size_exc, file)
       ELSE IF bad_type
       THEN IF slip = "scan_first" THEN [scanned EXCEPT !.exc = type_exc]
            ELSE Unread(type_exc, file)
       ELSE IF bad_ext
       THEN IF slip = "scan_first"
            THEN [scanned EXCEPT !.exc = Some(Exc("FileTypeException", <<"ext", ext>>))]
            ELSE Unread(Some(Exc("FileTypeException", <<"ext", ext>>)), file)
       ELSE scanned

validate_file_size_ge(file) == validate_file_slip(file, "size_ge")

validate_file_type_first(file) == validate_file_slip(file, "type_first")

validate_file_scan_first(file) == validate_file_slip(file, "scan_first")

\* validate_file on the stream, with the same fields
validate_file_run(file) ==
    IF file.size # None /\ file.size[1] # 0 /\ file.size[1] > MAX_FILE_SIZE
    THEN Unread(Some(Exc("FileSizeException", <<MAX_FILE_SIZE, file.size[1]>>)), file)
    ELSE IF ~ InSeq(file.content_type, ALLOWED_FILE_TYPES)
    THEN Unread(Some(Exc("FileTypeException", <<"type", file.content_type>>)), file)
    ELSE IF file.filename # None /\ file.filename[1] # <<>>
            /\ Lower(Suffix(file.filename[1])) \notin allowed_extensions
    THEN Unread(Some(Exc("FileTypeException",
                         <<"ext", Lower(Suffix(file.filename[1]))>>)), file)
    ELSE scan_for_malware_run(file)

\* the exception validate_file raises, None when it returns
validate_file(file) == validate_file_run(file).exc

\* offset of file.file after validate_file
validate_file_pos(file) == Tell(validate_file_run(file).file)

(***************************************************************************)
(* Key derivation and Fernet as symbolic terms: a derived key is the term  *)
(* of its inputs; a token carries its IV, its ciphertext and the HMAC of   *)
(* both, and decrypts only when the HMAC is the one its key gives.         *)
(***************************************************************************)
salt == "formvault_stateless_salt_v1"

get_or_create_encryption_key(secret) ==
    [kdf |-> "pbkdf2-hmac-sha256", length |-> 32, salt |-> salt,
     iterations |-> 100000, password |-> secret]

AesEncrypt(key, iv, data) == [key |-> key, iv |-> iv, data |-> data]

Hmac(key, iv, ciphertext) == [key |-> key, iv |-> iv, ciphertext |-> ciphertext]

FernetEncrypt(key, data, iv) ==
    LET ciphertext == AesEncrypt(key, iv, data)
    IN [iv |-> iv, ciphertext |-> ciphertext, hmac |-> Hmac(key, iv, ciphertext)]

\* None stands for InvalidToken
FernetDecrypt(key, token) ==
    IF token.hmac = Hmac(key, token.iv, token.ciphertext)
    THEN Some(token.ciphertext.data)
    ELSE None

(***************************************************************************)
(* str.encode() / bytes.decode(): UTF-8, for code points below 2048.       *)
(***************************************************************************)
Utf8Char(c) ==
    IF c < 128 THEN <<c>> ELSE <<192 + (c \div 64), 128 + (c % 64)>>

\* ASCII text is its own encoding
RECURSIVE Utf8Encode(_)
Utf8Encode(s) ==
    IF \A i \in 1..Len(s) : s[i] < 128 THEN s
    ELSE Utf8Char(Head(s)) \o Utf8Encode(Tail(s))

\* bytes.decode("latin-1"): one character per byte
Latin1Decode(b) == Some(b)

\* bytes.decode(): None stands for UnicodeDecodeError
RECURSIVE Utf8Decode(_)
Utf8Decode(b) ==
    IF \A i \in 1..Len(b) : b[i] < 128 THEN Some(b)
    ELSE IF b[1] < 128
    THEN LET r == Utf8Decode(Tail(b))
         IN IF r = None THEN None ELSE Some(<<b[1]>> \o r[1])
    ELSE IF /\ b[1] >= 194 /\ b[1] < 224
            /\ Len(b) >= 2 /\ b[2] >= 128 /\ b[2] < 192
    THEN LET r == Utf8Decode(SubSeq(b, 3, Len(b)))
         IN IF r = None THEN None
            ELSE Some(<<(b[1] - 192) * 64 + (b[2] - 128)>> \o r[1])
    ELSE None

(***************************************************************************)
(* Stored names.  A name is the text B \o rest, where B is the base64     *)
(* text of a token (b64 = Some(token)) or the empty text (b64 = None) and *)
(* rest is a text of characters.  B holds characters of the base64        *)
(* alphabet only, so it holds no ".".                                      *)
(***************************************************************************)
\* secrets.token_hex: the r-th value it can return, as text
TokenHex(r) == <<96 + r>>

Underscore == <<95>>

\* generate_secure_filename: the name is the base64 text of the token
\* followed by the lower-cased extension
generate_secure_filename(key, original_filename, file_id, r, iv) ==
    LET file_ext == Lower(Suffix(original_filename))
        filename_data == file_id \o Underscore \o original_filename
                            \o Underscore \o TokenHex(r)
        encrypted_data == FernetEncrypt(key, Utf8Encode(filename_data), iv)
    IN [b64 |-> Some(encrypted_data), rest |-> file_ext]

Unknown == <<117, 110, 107, 110, 111, 119, 110>>

\* pathlib: Path(encrypted_filename).stem.  B holds no "/" and no ".", so
\* it stands in the path as one character that is neither (-1); the stem
\* carries the token when it begins with that character
NameStem(name) ==
    IF name.b64 = None
    THEN [name EXCEPT !.rest = Stem(name.rest)]
    ELSE LET stem == Stem(<<-1>> \o name.rest)
         IN IF stem # <<>> /\ stem[1] = -1
            THEN [name EXCEPT !.rest = Tail(stem)]
            ELSE [b64 |-> None, rest |-> stem]

\* the characters base64.urlsafe_b64decode keeps: A-Z a-z 0-9 - _ + /
IsB64Char(c) ==
    \/ c >= 65 /\ c <= 90
    \/ c >= 97 /\ c <= 122
    \/ c >= 48 /\ c <= 57
    \/ c \in {45, 95, 43, 47}

B64Chars(s) == SelectSeq(s, IsB64Char)

\* base64.urlsafe_b64decode(base_name.encode()), not strict: characters
\* outside the alphabet are dropped.  The result is the token whose base64
\* text was given, or bytes that are no token (token = None), or
\* binascii.Error when the characters left are not a multiple of four.
\* Defined for texts without "=" and without alphabet characters after B.
urlsafe_b64decode(base_name) ==
    CASE base_name.b64 # None /\ B64Chars(base_name.rest) = <<>> ->
            [exc |-> None, token |-> base_name.b64]
      [] base_name.b64 = None /\ Len(B64Chars(base_name.rest)) % 4 = 0 ->
            [exc |-> None, token |-> None]
      [] base_name.b64 = None /\ Len(B64Chars(base_name.rest)) % 4 # 0 ->
            [exc |-> Some("binascii.Error"), token |-> None]

\* the try block of decrypt_filename: the exception it ends with, or the
\* text it returns
decrypt_filename_try(key, encrypted_filename) ==
    LET base_name == NameStem(encrypted_filename)
        encrypted_data == urlsafe_b64decode(base_name)
        decrypted_data == IF encrypted_data.token = None THEN None
                          ELSE FernetDecrypt(key, encrypted_data.token[1])
        text == IF decrypted_data = None THEN None
                ELSE Utf8Decode(decrypted_data[1])
    IN IF encrypted_data.exc # None
       THEN [exc |-> encrypted_data.exc, value |-> <<>>]
       ELSE IF decrypted_data = None
       THEN [exc |-> Some("InvalidToken"), value |-> <<>>]
       ELSE IF text = None
       THEN [exc |-> Some("UnicodeDecodeError"), value |-> <<>>]
       ELSE [exc |-> None, value |-> text[1]]

\* the same with `except InvalidToken` for `except Exception`
decrypt_filename_catch_invalid_token(key, encrypted_filename) ==
    LET t == decrypt_filename_try(key, encrypted_filename)
    IN IF t.exc = Some("InvalidToken")
       THEN [raised |-> None, value |-> Unknown]
       ELSE [raised |-> t.exc, value |-> t.value]

\* decrypt_filename: every exception of the try block gives "unknown"
decrypt_filename_run(key, encrypted_filename) ==
    LET t == decrypt_filename_try(key, encrypted_filename)
    IN IF t.exc # None
       THEN [raised |-> None, value |-> Unknown]
       ELSE [raised |-> None, value |-> t.value]

decrypt_filename(key, encrypted_filename) ==
    decrypt_filename_run(key, encrypted_filename).value

(***************************************************************************)
(* SHA-256 as a collision-free symbolic digest; the tagged hash is the    *)
(* text "sha256:" followed by the hex digest.                             *)
(***************************************************************************)
Sha256Prefix == <<"sha256:">>

HexDigest(content) == <<"hex", content>>

TaggedHash(content) == <<Sha256Prefix, HexDigest(content)>>

\* file_hash.replace("sha256:", "")
StripPrefix(h) == SelectSeq(h, LAMBDA x : x # Sha256Prefix)

\* f"sha256:{db_file.file_hash}"
AddPrefix(h) == <<Sha256Prefix>> \o h

(***************************************************************************)
(* Inputs of the model.                                                    *)
(***************************************************************************)
LocalType == <<108, 111, 99, 97, 108>>   \* "local"
S3Type == <<115, 51>>                    \* "s3"
S3Upper == <<83, 51>>               \* "S3"

\* get_settings() of the repository: Settings of core/config.py, which has
\* none of the storage attributes
RepoSettings == [SECRET_KEY |-> "your-secret-key-change-in-production"]

\* the startup settings the storage is built from: those of the repository,
\* and settings with the attributes __init__ reads, as the tests mock them:
\* local, S3 without its credentials, S3 with them, and local with no S3
\* bucket named at all
SettingsChoices ==
    { RepoSettings } \cup
    ({ [STORAGE_TYPE |-> t, S3_ACCESS_KEY |-> a, S3_SECRET_KEY |-> a,
       S3_BUCKET |-> Some("envbucket"), SECRET_KEY |-> "secret"] :
        t \in {LocalType, S3Upper}, a \in {None, Some("envkey")} }
    \ { [STORAGE_TYPE |-> LocalType, S3_ACCESS_KEY |-> Some("envkey"),
          S3_SECRET_KEY |-> Some("envkey"), S3_BUCKET |-> Some("envbucket"),
          SECRET_KEY |-> "secret"] })
    \cup { [STORAGE_TYPE |-> LocalType, S3_ACCESS_KEY |-> None,
            S3_SECRET_KEY |-> None, S3_BUCKET |-> None, SECRET_KEY |-> "secret"] }

\* the settings of a plain local installation
LocalSettings ==
    [STORAGE_TYPE |-> LocalType, S3_ACCESS_KEY |-> None, S3_SECRET_KEY |-> None,
     S3_BUCKET |-> Some("envbucket"), SECRET_KEY |-> "secret"]

RemoteSettings ==
    [STORAGE_TYPE |-> S3Upper, S3_ACCESS_KEY |-> Some("envkey"),
     S3_SECRET_KEY |-> Some("envkey"), S3_BUCKET |-> Some("envbucket"),
     SECRET_KEY |-> "secret"]

\* rows the admin view can save as the SystemConfig singleton
SysConfChoices ==
    { [storage_provider |-> LocalType, s3_access_key |-> None, s3_bucket |-> None],
      [storage_provider |-> S3Type, s3_access_key |-> None, s3_bucket |-> None],
      [storage_provider |-> S3Type, s3_access_key |-> Some("dbkey"),
       s3_bucket |-> None],
      [storage_provider |-> S3Type, s3_access_key |-> Some("dbkey"),
       s3_bucket |-> Some("dbbucket")] }

\* the file id the storage is called with directly, as text: "1"
FileIds == { <<49>> }

\* the ids uuid4 can return: "1", "2"
Uuids == { <<49>>, <<50>> }

\* ids of the applications the database starts with: drafts, and for the
\* service an application whose status is 'submitted'; the ids uuid4 can
\* give to an application created later
Applications == { "app1" }

SubmittedApplications == { "app0" }

NewApplications == { "app2" }

AllApplications == Applications \cup SubmittedApplications \cup NewApplications

\* the application ids an upload can name: an id of NewApplications names no
\* application until one is created with it
ApplicationIds ==
    { None } \cup { Some(a) : a \in Applications \cup NewApplications }

\* FileType of schemas/base.py
FileTypes == { "student_id", "passport" }

\* the file references an application request can carry
FileReferences == { None } \cup { Some(id) : id \in Uuids }

FnJpg == <<97, 46, 106, 112, 103>>   \* a.jpg
FnPng == <<98, 46, 80, 78, 71>>      \* b.PNG
FnTxt == <<99, 46, 116, 120, 116>>   \* c.txt

JpegBytes == <<255, 216, 255, 224>>
PngBytes == <<137, 80, 78, 71, 13, 10, 26, 10>>

Upload(fn, ct, size, content) ==
    [filename |-> fn, content_type |-> ct, size |-> size,
     content |-> content, pos |-> 0]

\* the uploads store_file is called with directly
StoreUploads ==
    { Upload(Some(FnJpg), "image/jpeg", Some(2), <<255, 216>>),
      Upload(Some(FnJpg), "image/jpeg", Some(3), <<137, 80, 78>>) }

\* the uploads sent through FileService: a valid one, one with a banned
\* pattern, one whose bytes are not of the declared type
SvcUploads ==
    { Upload(Some(FnJpg), "image/jpeg", Some(4), JpegBytes),
      Upload(Some(FnJpg), "image/jpeg", Some(6), JpegBytes \o <<60, 37>>),
      Upload(Some(FnJpg), "image/jpeg", Some(8), PngBytes) }

FnMixed == <<100, 46, 74, 112, 69, 103>>   \* d.JpEg
FnBare == <<102>>                          \* f
FnDot == <<46, 106, 112, 103>>             \* .jpg
FnDir == <<100, 47, 46, 106, 112, 103>>    \* d/.jpg
FnSlash == <<97, 46, 74, 80, 71, 47>>      \* a.JPG/
FnUpper == <<97, 46, 201>>                 \* a.E-acute

PdfBytes == <<37, 80, 68, 70, 45, 49>>     \* %PDF-1

Zeros(n) == [i \in 1..n |-> 0]

\* a JPEG whose "<%" ends with the last byte of the header the scan reads,
\* and one whose "<%" begins with that byte
LongHit == JpegBytes \o Zeros(HeaderLen - 6) \o <<60, 37>>

LongMiss == JpegBytes \o Zeros(HeaderLen - 5) \o <<60, 37>>

\* the file names, declared types, contents and stream offsets of the
\* uploads a request can carry
UploadNames ==
    { None, Some(<<>>), Some(FnJpg), Some(FnPng), Some(FnTxt), Some(FnMixed),
      Some(FnBare), Some(FnDot), Some(FnDir), Some(FnSlash), Some(FnUpper) }

UploadTypes == { "image/jpeg", "image/png", "application/pdf", "text/plain" }

UploadContents ==
    { JpegBytes, PngBytes, PdfBytes,
      JpegBytes \o <<60, 37>>,                          \* ...<%
      PngBytes \o <<60, 83, 67, 82, 73, 80, 84>>,       \* ...<SCRIPT
      <<1, 2, 3>>, <<60, 37>>, LongHit, LongMiss }

\* the sizes a request can declare for a content
UploadSizes(content) ==
    { None, Some(0), Some(Len(content)), Some(MAX_FILE_SIZE),
      Some(MAX_FILE_SIZE + 1) }

\* the uploads a request can carry
Uploads ==
    UNION { { [Upload(fn, ct, size, content) EXCEPT !.pos = pos] :
                fn \in UploadNames, ct \in UploadTypes,
                size \in UploadSizes(content), pos \in {0, 2} } :
            content \in UploadContents }

(***************************************************************************)
(* State.                                                                  *)
(***************************************************************************)
VARIABLES
    settings,        \* get_settings(): fixed for the process
    storage_type,    \* SecureFileStorage.storage_type
    s3_client,       \* SecureFileStorage.s3_client: None or Some(client)
    encryption_key,  \* SecureFileStorage._encryption_key
    sysconf,         \* the SystemConfig row: None or Some(row)
    localfs,         \* upload_dir: stored name -> bytes
    s3objs,          \* the object store: <<bucket, key>> -> bytes
    dbfiles,         \* the files table: id -> File record
    dbapps,          \* the applications table: id -> status
    calls,           \* the requests suspended at an await, with their locals
    stored,          \* results of the successful stores not deleted since
    last,            \* the last step taken and its outcome
    steps            \* calls begun so far

vars == <<settings, storage_type, s3_client, encryption_key, sysconf,
          localfs, s3objs, dbfiles, dbapps, calls, stored, last, steps>>

\* the attributes of the storage instance
instance == <<settings, storage_type, s3_client, encryption_key>>

Put(f, k, v) == (k :> v) @@ f

Remove(f, k) == [x \in DOMAIN f \ {k} |-> f[x]]

Empty == [x \in {} |-> 0]

\* the request `call` with a note of the SystemConfig row in force when it
\* began
Began(call, row) ==
    [f \in DOMAIN call \cup {"row"} |-> IF f = "row" THEN row ELSE call[f]]

\* how a call on the disk or the object store ends: well, or with an error
IoOk == [kind |-> "ok", k |-> 0]

IoFail == [kind |-> "fail", k |-> 0]

(***************************************************************************)
(* SecureFileStorage.__init__                                              *)
(***************************************************************************)
\* boto3.client(...): client_ok is whether construction succeeds
BotoClient(access_key, client_ok) ==
    IF client_ok THEN Some([access_key |-> access_key]) ELSE None

\* the same with a key made anew for each instance, as Fernet.generate_key()
\* would
\* __init__ deriving the key from the S3 secret when the settings have one
InitStorage_s3_secret(st, client_ok) ==
    IF "STORAGE_TYPE" \notin DOMAIN st
    THEN [raised |-> Some("AttributeError"), storage_type |-> None,
          s3_client |-> None, encryption_key |-> None]
    ELSE
    LET t == Lower(st.STORAGE_TYPE)
        creds == st.S3_ACCESS_KEY # None /\ st.S3_SECRET_KEY # None
                    /\ st.S3_BUCKET # None
        client == IF t = S3Type /\ creds
                  THEN BotoClient(st.S3_ACCESS_KEY, client_ok) ELSE None
    IN [raised |-> None,
        storage_type |-> IF t = S3Type /\ client = None THEN LocalType ELSE t,
        s3_client |-> client,
        encryption_key |->
            get_or_create_encryption_key(IF st.S3_SECRET_KEY # None
                                         THEN st.S3_SECRET_KEY[1]
                                         ELSE st.SECRET_KEY)]

\* __init__: the attributes it sets, or the AttributeError of line 42 when
\* the settings have no STORAGE_TYPE, which leaves no instance
InitStorage(st, client_ok) ==
    IF "STORAGE_TYPE" \notin DOMAIN st
    THEN [raised |-> Some("AttributeError"), storage_type |-> None,
          s3_client |-> None, encryption_key |-> None]
    ELSE
    LET t == Lower(st.STORAGE_TYPE)
        creds == st.S3_ACCESS_KEY # None /\ st.S3_SECRET_KEY # None
                    /\ st.S3_BUCKET # None
        client == IF t = S3Type /\ creds
                  THEN BotoClient(st.S3_ACCESS_KEY, client_ok) ELSE None
    IN [raised |-> None,
        storage_type |-> IF t = S3Type /\ client = None THEN LocalType ELSE t,
        s3_client |-> client,
        encryption_key |-> get_or_create_encryption_key(st.SECRET_KEY)]

\* file_storage = SecureFileStorage() has returned: the module was imported
\* and there is an instance to call
HasInstance == "STORAGE_TYPE" \in DOMAIN settings

\* the requests in flight: a request occupies a slot from its first await to
\* its end
Calls == 1..MaxCalls

IdleCall == [pc |-> "idle"]

FreeCalls == { c \in Calls : calls[c].pc = "idle" }

\* the process has started: the instance is built from one of the settings,
\* nothing is stored, no request is in flight
Started(choices, client_oks, tables) ==
    /\ settings \in choices
    /\ \E client_ok \in client_oks :
         LET i == InitStorage(settings, client_ok)
         IN /\ storage_type = i.storage_type
            /\ s3_client = i.s3_client
            /\ encryption_key = i.encryption_key
    /\ sysconf = None
    /\ localfs = Empty
    /\ s3objs = Empty
    /\ dbfiles = Empty
    /\ dbapps \in tables
    /\ calls = [c \in Calls |-> IdleCall]
    /\ stored = <<>>
    /\ steps = 0

Init ==
    /\ Started(SettingsChoices, BOOLEAN, {[a \in Applications |-> "draft"]})
    /\ last = [op |-> "init"]

(***************************************************************************)
(* SecureFileStorage.store_file.  The coroutine awaits three times:        *)
(* file.seek(0) at line 179, file.read() at 182, file.seek(0) at 186.  It  *)
(* is a record of its locals and of the await it is suspended at (pc):     *)
(* "seek", "read", then "write" for the second seek, after which it runs   *)
(* to its end.                                                             *)
(***************************************************************************)
\* _get_config(db): db is None when no session is passed, else Some(row)
\* with row the SystemConfig row the session sees (None when there is none;
\* a failing query leaves the defaults just the same)
get_config(db) ==
    IF db # None /\ db[1] # None
    THEN [storage_type |-> db[1][1].storage_provider,
          s3_bucket |-> db[1][1].s3_bucket,
          s3_access_key |-> db[1][1].s3_access_key]
    ELSE [storage_type |-> Lower(settings.STORAGE_TYPE),
          s3_bucket |-> settings.S3_BUCKET,
          s3_access_key |-> None]

\* _create_s3_client_from_config when the configuration names S3 and an
\* access key, else the client built at startup
store_client(config, client_ok) ==
    IF config.storage_type = S3Type /\ config.s3_access_key # None
    THEN BotoClient(config.s3_access_key, client_ok)
    ELSE s3_client

\* the branch `storage_type == "s3" and s3_client` takes
store_backend(config, client) ==
    IF config.storage_type = S3Type /\ client # None THEN "s3" ELSE "local"

\* config.get("s3_bucket") or self.settings.S3_BUCKET
store_bucket(config) ==
    IF config.s3_bucket # None THEN config.s3_bucket ELSE settings.S3_BUCKET

\* file.filename or "unknown"
FilenameOr(file) ==
    IF file.filename = None \/ file.filename[1] = <<>> THEN Unknown
    ELSE file.filename[1]

\* f"{file.filename}"
FilenameStr(file) ==
    IF file.filename = None THEN <<78, 111, 110, 101>> ELSE file.filename[1]

\* the name store_file first generates
first_name(file, file_id, rnd) ==
    generate_secure_filename(encryption_key, FilenameOr(file), file_id,
                             rnd.r1, rnd.iv1)

\* the name generated again when the first one exists in upload_dir
second_name(file, file_id, rnd) ==
    generate_secure_filename(encryption_key,
                             TokenHex(rnd.r4) \o Underscore \o FilenameStr(file),
                             file_id, rnd.r2, rnd.iv2)

\* content = await file.read(): the bytes from the offset to the end
ReadAll(file) ==
    SubSeq(file.content,
           (IF file.pos < Len(file.content) THEN file.pos ELSE Len(file.content)) + 1,
           Len(file.content))

\* lines 167-179: the configuration is resolved, the client chosen and the
\* name generated; the coroutine awaits the first file.seek(0)
store_begin(file, file_id, db, rnd, client_ok) ==
    LET config == get_config(db)
        client == store_client(config, client_ok)
        backend == store_backend(config, client)
    IN [pc |-> "seek", op |-> "store_file", arg |-> file, file |-> file,
        file_id |-> file_id,
        db |-> db # None, client_ok |-> client_ok, config |-> config,
        backend |-> backend,
        bucket |-> IF backend = "s3" THEN store_bucket(config) ELSE None,
        name |-> first_name(file, file_id, rnd),
        content |-> <<>>, hash |-> None, size |-> 0]

\* the first seek left out: the stream is read from where it stands
store_seek_skipped(call) == [call EXCEPT !.pc = "read"]

\* lines 179-182: the stream is at offset 0; the coroutine awaits file.read()
store_seek(call) == [call EXCEPT !.pc = "read", !.file = Seek(@, 0)]

\* lines 182-186: the content is read and hashed; the coroutine awaits the
\* second file.seek(0)
store_read(call) ==
    LET content == ReadAll(call.file)
    IN [call EXCEPT !.pc = "write", !.content = content,
                    !.hash = Some(<<Sha256Prefix, HexDigest(content)>>),
                    !.size = Len(content),
                    !.file = Seek(@, Len(call.file.content))]

\* a write that loses the last byte of what it was given
local_write_short(fs, name, content, io) ==
    CASE io.kind = "ok" -> Put(fs, name, SubSeq(content, 1, Len(content) - 1))
      [] io.kind = "open_fail" -> fs
      [] io.kind = "write_fail" -> Put(fs, name, SubSeq(content, 1, io.k))
      [] io.kind = "chmod_fail" -> Put(fs, name, content)

\* open(file_path, "wb"); f.write(content); os.chmod(file_path, 0o640)
\* io.kind is how far it gets: open() failing leaves the directory as it
\* was, write() failing leaves the io.k bytes written before the error,
\* chmod() failing leaves the whole file
local_write(fs, name, content, io) ==
    CASE io.kind = "ok" -> Put(fs, name, content)
      [] io.kind = "open_fail" -> fs
      [] io.kind = "write_fail" -> Put(fs, name, SubSeq(content, 1, io.k))
      [] io.kind = "chmod_fail" -> Put(fs, name, content)

\* s3_client.upload_fileobj(file.file, bucket, key): the object is put whole
\* from the stream's offset, or not at all
s3_upload(objs, bucket, key, file, pos, io) ==
    IF io.kind = "ok" /\ bucket # None
    THEN Put(objs, <<bucket[1], key>>, SubSeq(file.content, pos + 1, Len(file.content)))
    ELSE objs

StorageFailed == Exc("FileUploadException", <<"Storage failed">>)

\* lines 186-212, run without suspension once the second seek is done: the
\* upload, or the existence check, the regeneration and the write, then the
\* returned triple or the exception; fs and objs are the directory and the
\* object store it finds, and those it leaves
store_finish(call, fs, objs, rnd, io) ==
    LET file == Seek(call.file, 0)
        name == IF call.backend = "local" /\ call.name \in DOMAIN fs
                THEN second_name(file, call.file_id, rnd)
                ELSE call.name
        ok == io.kind = "ok" /\ (call.backend = "s3" => call.bucket # None)
    IN [ok |-> ok,
        name |-> name,
        hash |-> call.hash[1],
        size |-> call.size,
        exc |-> IF ok THEN None ELSE Some(StorageFailed),
        backend |-> call.backend,
        bucket |-> call.bucket,
        first |-> call.name,
        content |-> call.content,
        file |-> file,
        fs |-> IF call.backend = "local"
               THEN local_write(fs, name, call.content, io) ELSE fs,
        objs |-> IF call.backend = "s3"
                 THEN s3_upload(objs, call.bucket, name, file, Tell(file), io)
                 ELSE objs]

\* store_file when nothing else runs between its awaits
store_file(file, file_id, db, rnd, client_ok, io) ==
    store_finish(store_read(store_seek(store_begin(file, file_id, db, rnd,
                                                   client_ok))),
                 localfs, s3objs, rnd, io)

(***************************************************************************)
(* The other operations of SecureFileStorage.                              *)
(***************************************************************************)
\* delete_file on the directory fs and the object store objs:
\* [result, fs, objs]; io.kind # "ok" is delete_object or unlink raising,
\* which the method turns into False
delete_file(fs, objs, stored_filename, io) ==
    IF storage_type = S3Type /\ s3_client # None
    THEN IF io.kind = "ok" /\ settings.S3_BUCKET # None
         THEN [result |-> TRUE, fs |-> fs,
               objs |-> IF <<settings.S3_BUCKET[1], stored_filename>> \in DOMAIN objs
                        THEN Remove(objs, <<settings.S3_BUCKET[1], stored_filename>>)
                        ELSE objs]
         ELSE [result |-> FALSE, fs |-> fs, objs |-> objs]
    ELSE IF stored_filename \in DOMAIN fs /\ io.kind = "ok"
         THEN [result |-> TRUE, fs |-> Remove(fs, stored_filename), objs |-> objs]
         ELSE [result |-> FALSE, fs |-> fs, objs |-> objs]

\* the backend delete_file, get_file_info and get_presigned_url act on
instance_backend == IF storage_type = S3Type /\ s3_client # None THEN "s3" ELSE "local"

\* get_file_path: Some(the name whose path it is) or None
get_file_path(stored_filename) ==
    IF storage_type = S3Type THEN None
    ELSE IF stored_filename \in DOMAIN localfs THEN Some(stored_filename) ELSE None

\* the same without the try block: an error of open() or read() escapes
verify_file_integrity_no_except(stored_filename, expected_hash, io) ==
    IF storage_type = S3Type THEN [raised |-> None, result |-> TRUE]
    ELSE LET file_path == get_file_path(stored_filename)
         IN IF file_path = None THEN [raised |-> None, result |-> FALSE]
            ELSE IF io.kind # "ok"
            THEN [raised |-> Some("OSError"), result |-> FALSE]
            ELSE [raised |-> None,
                  result |-> <<Sha256Prefix, HexDigest(localfs[file_path[1]])>>
                                = expected_hash]

\* the same tagging the recomputed digest "sha-256:"
verify_file_integrity_other_tag(stored_filename, expected_hash, io) ==
    IF storage_type = S3Type THEN [raised |-> None, result |-> TRUE]
    ELSE LET file_path == get_file_path(stored_filename)
         IN [raised |-> None,
             result |-> file_path # None /\ io.kind = "ok"
                          /\ <<<<"sha-256:">>, HexDigest(localfs[file_path[1]])>>
                                = expected_hash]

\* hasher.update(chunk): the hasher's state is the bytes it has absorbed
Sha256Update(hasher, chunk) == hasher \o chunk

\* while chunk := f.read(8192): hasher.update(chunk)
RECURSIVE HashChunks(_, _)
HashChunks(hasher, unread) ==
    IF unread = <<>> THEN hasher
    ELSE LET n == IF Len(unread) < 8192 THEN Len(unread) ELSE 8192
         IN HashChunks(Sha256Update(hasher, SubSeq(unread, 1, n)),
                       SubSeq(unread, n + 1, Len(unread)))

\* verify_file_integrity: what it raises and what it returns; io.kind # "ok"
\* is open() or read() raising, which the method turns into False
verify_file_integrity_run(stored_filename, expected_hash, io) ==
    IF storage_type = S3Type THEN [raised |-> None, result |-> TRUE]
    ELSE LET file_path == get_file_path(stored_filename)
         IN IF file_path = None THEN [raised |-> None, result |-> FALSE]
            ELSE IF io.kind # "ok" THEN [raised |-> None, result |-> FALSE]
            ELSE [raised |-> None,
                  result |-> <<Sha256Prefix,
                               HexDigest(HashChunks(<<>>, localfs[file_path[1]]))>>
                                = expected_hash]

\* get_presigned_url: io.kind # "ok" is generate_presigned_url raising
\* ClientError
get_presigned_url(stored_filename, expiration, io) ==
    IF storage_type = S3Type /\ s3_client # None
    THEN IF io.kind = "ok"
         THEN Some([bucket |-> settings.S3_BUCKET, key |-> stored_filename,
                    expires |-> expiration])
         ELSE None
    ELSE None


\* FileResponse(path=...), sent after the handler has returned: starlette
\* stats and reads the file then.  Some(bytes) is what the client receives,
\* None a send that fails: the file is gone, or cannot be read
file_response(fs, path, io) ==
    IF path \in DOMAIN fs /\ io.kind = "ok" THEN Some(fs[path]) ELSE None

(***************************************************************************)
(* Inputs of the calls.                                                    *)
(***************************************************************************)
Rand == 1..MaxRand

\* what the disk can do to the local write of content: the write can fail
\* after any number of bytes
LocalIo(content) ==
    { IoOk, [kind |-> "open_fail", k |-> 0], [kind |-> "chmod_fail", k |-> 0] }
    \cup { [kind |-> "write_fail", k |-> k] : k \in 0..(Len(content) - 1) }

\* what can happen to the write: to the local one, or to the upload
StoreIo(backend, content) ==
    IF backend = "s3" THEN {IoOk, IoFail} ELSE LocalIo(content)

\* names a caller can ask about: those in either backend, those returned
\* by a store, and one that was never stored
NeverStored ==
    [b64 |-> Some(FernetEncrypt(get_or_create_encryption_key("foreign"),
                                <<>>, 0)),
     rest |-> <<>>]

KnownNames ==
    DOMAIN localfs \cup { k[2] : k \in DOMAIN s3objs }
    \cup { stored[i].name : i \in 1..Len(stored) } \cup { NeverStored }

StoredRecord(r) ==
    [name |-> r.name, hash |-> r.hash, size |-> r.size, content |-> r.content,
     backend |-> r.backend, bucket |-> r.bucket, intact |-> TRUE]

\* the stores not deleted since, without those that returned name
Forget(name) == SelectSeq(stored, LAMBDA e : e.name # name)

\* a step that leaves its request suspended at an await
Awaiting == [op |-> "await"]

(***************************************************************************)
(* Calls on the storage.  A call that awaits is an action for each run     *)
(* between two awaits; the calls that do not await are one action.         *)
(***************************************************************************)
\* store_file up to its first await.  A client is constructed only when the
\* configuration names S3 and an access key
StoreBegin ==
    /\ HasInstance
    /\ steps < MaxSteps
    /\ FreeCalls # {}
    /\ \E file \in StoreUploads, file_id \in FileIds, db \in {None, Some(sysconf)} :
       \E client_ok \in IF get_config(db).storage_type = S3Type
                            /\ get_config(db).s3_access_key # None
                         THEN BOOLEAN ELSE {TRUE} :
       \E r1 \in Rand :
         calls' = [calls EXCEPT ![Min(FreeCalls)] =
                     Began(store_begin(file, file_id, db, [r1 |-> r1, iv1 |-> 1],
                                       client_ok), sysconf)]
    /\ last' = Awaiting
    /\ steps' = steps + 1
    /\ UNCHANGED <<instance, sysconf, localfs, s3objs, dbfiles, dbapps, stored>>

\* the first seek is done and the call runs to `await file.read()`
StoreSeek ==
    /\ \E c \in Calls :
         /\ calls[c].pc = "seek"
         /\ calls' = [calls EXCEPT ![c] = store_seek(calls[c])]
    /\ last' = Awaiting
    /\ UNCHANGED <<instance, sysconf, localfs, s3objs, dbfiles, dbapps, stored,
                   steps>>

\* the read is done and the call runs to the second `await file.seek(0)`
StoreRead ==
    /\ \E c \in Calls :
         /\ calls[c].pc = "read"
         /\ calls' = [calls EXCEPT ![c] = store_read(calls[c])]
    /\ last' = Awaiting
    /\ UNCHANGED <<instance, sysconf, localfs, s3objs, dbfiles, dbapps, stored,
                   steps>>

\* what the caller of a finished store_file has: the arguments, the locals
\* and the outcome
StoreOutcome(call, r, io) ==
    [op |-> "store_file", file |-> call.arg, file_id |-> call.file_id,
     db |-> call.db, client_ok |-> call.client_ok, config |-> call.config,
     row |-> call.row, io |-> io, ok |-> r.ok, name |-> r.name, hash |-> r.hash, size |-> r.size,
     exc |-> r.exc, backend |-> r.backend, bucket |-> r.bucket,
     collided |-> r.backend = "local" /\ r.first \in DOMAIN localfs,
     existed |-> IF r.backend = "s3"
                 THEN r.bucket # None /\ <<r.bucket[1], r.name>> \in DOMAIN s3objs
                 ELSE r.name \in DOMAIN localfs]

\* the second seek is done and store_file runs to its end.  The second
\* name's random values are drawn only when the first name exists
StoreWrite ==
    /\ \E c \in Calls :
         /\ calls[c].pc = "write"
         /\ calls[c].op = "store_file"
         /\ \E r2 \in IF calls[c].backend = "local" /\ calls[c].name \in DOMAIN localfs
                      THEN Rand ELSE {1} :
            \E io \in StoreIo(calls[c].backend, calls[c].content) :
            \E r \in { store_finish(calls[c], localfs, s3objs,
                                    [r4 |-> 1, r2 |-> r2, iv2 |-> 1], io) } :
              /\ localfs' = r.fs
              /\ s3objs' = r.objs
              /\ stored' = IF r.ok THEN Append(stored, StoredRecord(r)) ELSE stored
              /\ last' = StoreOutcome(calls[c], r, io)
              /\ calls' = [calls EXCEPT ![c] = IdleCall]
    /\ UNCHANGED <<instance, sysconf, dbfiles, dbapps, steps>>

DeleteFile ==
    /\ HasInstance
    /\ steps < MaxSteps
    /\ \E name \in KnownNames, io \in {IoOk, IoFail} :
       \E r \in { delete_file(localfs, s3objs, name, io) } :
            /\ localfs' = r.fs
            /\ s3objs' = r.objs
            /\ stored' = Forget(name)
            /\ last' = [op |-> "delete_file", name |-> name, result |-> r.result,
                        io |-> io, backend |-> instance_backend]
    /\ steps' = steps + 1
    /\ UNCHANGED <<instance, sysconf, dbfiles, dbapps, calls>>

\* the download of a stored name: the handler looks the path up and
\* returns; with a path, the response is still to be sent
Retrieve ==
    /\ HasInstance
    /\ steps < MaxSteps
    /\ FreeCalls # {}
    /\ \E name \in KnownNames :
       \E path \in { get_file_path(name) } :
         IF path = None
         THEN /\ last' = [op |-> "retrieve", name |-> name, result |-> None,
                          sent |-> FALSE, row |-> sysconf,
                          backend |-> IF storage_type = S3Type THEN "s3" ELSE "local"]
              /\ calls' = calls
         ELSE /\ last' = Awaiting
              /\ calls' = [calls EXCEPT ![Min(FreeCalls)] =
                             [pc |-> "send", op |-> "retrieve", name |-> name,
                              path |-> path[1], row |-> sysconf]]
    /\ steps' = steps + 1
    /\ UNCHANGED <<instance, sysconf, localfs, s3objs, dbfiles, dbapps, stored>>

\* the response of a download is sent: the file is read now
SendFile ==
    /\ \E c \in Calls :
         /\ calls[c].pc = "send"
         /\ \E io \in IF calls[c].path \in DOMAIN localfs THEN {IoOk, IoFail}
                      ELSE {IoOk} :
              last' = [op |-> calls[c].op, name |-> calls[c].name,
                       result |-> file_response(localfs, calls[c].path, io),
                       sent |-> TRUE, row |-> calls[c].row, backend |-> "local"]
         /\ calls' = [calls EXCEPT ![c] = IdleCall]
    /\ UNCHANGED <<instance, sysconf, localfs, s3objs, dbfiles, dbapps, stored,
                   steps>>

\* the hashes a caller can expect: those store_file returned, and a wrong one
KnownHashes ==
    { stored[i].hash : i \in 1..Len(stored) } \cup { <<Sha256Prefix, HexDigest(<<0>>)>> }

\* the read can fail only where a file is opened
VerifyFileIntegrity ==
    /\ HasInstance
    /\ steps < MaxSteps
    /\ \E name \in KnownNames, expected \in KnownHashes :
       \E io \in IF get_file_path(name) # None THEN {IoOk, IoFail} ELSE {IoOk} :
       \E v \in { verify_file_integrity_run(name, expected, io) } :
         last' = [op |-> "verify_file_integrity", name |-> name,
                  expected |-> expected, io |-> io,
                  raised |-> v.raised, result |-> v.result,
                  backend |-> IF storage_type = S3Type THEN "s3" ELSE "local"]
    /\ steps' = steps + 1
    /\ UNCHANGED <<instance, sysconf, localfs, s3objs, dbfiles, dbapps, calls,
                   stored>>

GetPresignedUrl ==
    /\ HasInstance
    /\ steps < MaxSteps
    /\ \E name \in KnownNames, io \in {IoOk, IoFail} :
         last' = [op |-> "get_presigned_url", name |-> name, io |-> io,
                  result |-> get_presigned_url(name, 3600, io),
                  backend |-> instance_backend]
    /\ steps' = steps + 1
    /\ UNCHANGED <<instance, sysconf, localfs, s3objs, dbfiles, dbapps, calls,
                   stored>>

(***************************************************************************)
(* The environment: the admin view saves the SystemConfig row, and        *)
(* something outside the program rewrites a file of upload_dir.           *)
(***************************************************************************)
AdminSetConfig ==
    /\ HasInstance
    /\ steps < MaxSteps
    /\ \E row \in SysConfChoices :
         /\ sysconf # Some(row)
         /\ sysconf' = Some(row)
    /\ last' = [op |-> "admin_set_config"]
    /\ steps' = steps + 1
    /\ UNCHANGED <<instance, localfs, s3objs, dbfiles, dbapps, calls, stored>>

\* the bytes after tampering: one byte appended
Tamper(content) == Append(content, 0)

\* a file that holds what a store wrote is rewritten, while a call can still
\* follow; it is not a call of the program
ExternalModify ==
    /\ steps < MaxSteps
    /\ \E name \in DOMAIN localfs :
         /\ \E i \in 1..Len(stored) :
              stored[i].name = name /\ stored[i].backend = "local"
                /\ stored[i].intact
         /\ localfs' = Put(localfs, name, Tamper(localfs[name]))
         /\ stored' = [i \in 1..Len(stored) |->
                         IF stored[i].name = name /\ stored[i].backend = "local"
                         THEN [stored[i] EXCEPT !.intact = FALSE] ELSE stored[i]]
         /\ last' = [op |-> "external_modify", name |-> name]
    /\ UNCHANGED <<instance, sysconf, s3objs, dbfiles, dbapps, calls, steps>>

(***************************************************************************)
(* FileService: the storage calls with the File records around them, and  *)
(* the endpoints that change the tables FileService reads.                 *)
(***************************************************************************)
\* what the database does to the calls of one request: nothing, flush()
\* or commit() raising SQLAlchemyError, or the audit log raising another
\* exception
DbIo == { "ok", "flush", "audit", "commit" }

DatabaseFailed(operation) == Exc("DatabaseException", <<operation>>)

UploadFailed == Exc("FileUploadException", <<"File upload failed">>)

\* db.add(db_file); db.flush(): the insert fails on a primary key that
\* exists, on the NOT NULL application_id and on an application_id that
\* references no application
FlushFails(db, apps, file_id, application_id, dbio) ==
    \/ dbio = "flush"
    \/ file_id \in DOMAIN db
    \/ application_id = None
    \/ application_id[1] \notin DOMAIN apps

\* an upload that reports a rejected file as a failed upload
upload_begin_wraps_error(file, file_type, application_id, file_id, apps, rnd) ==
    LET invalid == validate_file(file)
        s == store_begin(file, file_id, None, rnd, TRUE)
    IN [done |-> invalid # None, validation |-> invalid,
        exc |-> IF invalid # None THEN Some(UploadFailed) ELSE None,
        call |-> [pc |-> s.pc, op |-> "upload_file", arg |-> s.arg,
                  file |-> s.file, file_id |-> s.file_id, db |-> s.db,
                  client_ok |-> s.client_ok, config |-> s.config,
                  backend |-> s.backend, bucket |-> s.bucket, name |-> s.name,
                  content |-> s.content, hash |-> s.hash, size |-> s.size,
                  file_type |-> file_type, application_id |-> application_id]]

\* upload_file, lines 65-85, up to the first await of store_file: the
\* validation and the application query, which end the call when they
\* raise, the id, and store_file called without a session.  apps is the
\* applications table the query sees
upload_begin(file, file_type, application_id, file_id, apps, rnd) ==
    LET invalid == validate_file(file)
        unknown == application_id # None /\ application_id[1] \notin DOMAIN apps
        s == store_begin(file, file_id, None, rnd, TRUE)
    IN [done |-> invalid # None \/ unknown,
        validation |-> invalid,
        exc |-> IF invalid # None THEN invalid
                ELSE IF unknown
                THEN Some(Exc("ApplicationNotFoundException", <<application_id[1]>>))
                ELSE None,
        call |-> [pc |-> s.pc, op |-> "upload_file", arg |-> s.arg,
                  file |-> s.file, file_id |-> s.file_id, db |-> s.db,
                  client_ok |-> s.client_ok, config |-> s.config,
                  backend |-> s.backend, bucket |-> s.bucket, name |-> s.name,
                  content |-> s.content, hash |-> s.hash, size |-> s.size,
                  file_type |-> file_type, application_id |-> application_id]]

\* upload_file from the last await of store_file to its end, lines 83-157:
\* the write, the File row, the flush, the audit log, the commit and the
\* response.  FileUploadResponseSchema requires created_at, which is not
\* passed: building the response raises after the commit, and the handler
\* of line 149 deletes the stored file and raises FileUploadException.
\* r is what store_file has returned or raised, delio what happens to the
\* compensating delete_file
upload_after_store(call, r, db, apps, io, dbio, delio) ==
    LET wrote == IF r.backend = "s3" THEN r.ok
                 ELSE io.kind \in {"ok", "write_fail", "chmod_fail"}
        undone == delete_file(r.fs, r.objs, r.name, delio)
        db_file == [id |-> call.file_id, application_id |-> call.application_id,
                    file_type |-> call.file_type,
                    original_filename |-> FilenameOr(call.arg),
                    stored_filename |-> r.name, file_size |-> r.size,
                    mime_type |-> call.arg.content_type,
                    file_hash |-> StripPrefix(r.hash)]
        after == [ok |-> FALSE, exc |-> r.exc, store_ok |-> r.ok, wrote |-> wrote,
                  compensated |-> FALSE, deleted |-> FALSE,
                  name |-> r.name, hash |-> r.hash, size |-> r.size,
                  content |-> r.content, backend |-> r.backend,
                  bucket |-> r.bucket, fs |-> r.fs, objs |-> r.objs, db |-> db]
        rolled_back == [after EXCEPT !.compensated = TRUE,
                                     !.deleted = undone.result,
                                     !.fs = undone.fs, !.objs = undone.objs]
    IN IF ~ r.ok THEN after
       ELSE IF FlushFails(db, apps, call.file_id, call.application_id, dbio)
               \/ dbio = "commit"
       THEN [rolled_back EXCEPT !.exc = Some(DatabaseFailed("file_upload"))]
       ELSE IF dbio = "audit"
       THEN [rolled_back EXCEPT !.exc = Some(UploadFailed)]
       ELSE [rolled_back EXCEPT !.exc = Some(UploadFailed),
                                !.db = Put(db, call.file_id, db_file)]

\* FileService.delete_file: storage first, then the record, the audit log
\* and the commit; dbio "commit" is SQLAlchemyError, "audit" any other
\* exception
svc_delete_file(file_id, io, dbio) ==
    IF file_id \notin DOMAIN dbfiles
    THEN [ok |-> FALSE, exc |-> Some(Exc("FileNotFoundException", <<file_id>>)),
          fs |-> localfs, objs |-> s3objs, db |-> dbfiles, storage_deleted |-> FALSE]
    ELSE LET d == delete_file(localfs, s3objs, dbfiles[file_id].stored_filename, io)
         IN IF dbio = "commit"
            THEN [ok |-> FALSE, exc |-> Some(DatabaseFailed("file_delete")),
                  fs |-> d.fs, objs |-> d.objs, db |-> dbfiles,
                  storage_deleted |-> d.result]
            ELSE IF dbio = "audit"
            THEN [ok |-> FALSE,
                  exc |-> Some(Exc("FileUploadException", <<"File deletion failed">>)),
                  fs |-> d.fs, objs |-> d.objs, db |-> dbfiles,
                  storage_deleted |-> d.result]
            ELSE [ok |-> TRUE, exc |-> None, fs |-> d.fs, objs |-> d.objs,
                  db |-> Remove(dbfiles, file_id), storage_deleted |-> d.result]

\* FileService.verify_file_integrity: None stands for FileNotFoundException;
\* io is the outcome of the storage's open() and read() of the stored file
svc_verify_file_integrity(file_id, io) ==
    IF file_id \notin DOMAIN dbfiles THEN None
    ELSE Some(verify_file_integrity_run(dbfiles[file_id].stored_filename,
                                        AddPrefix(dbfiles[file_id].file_hash),
                                        io).result)

\* the download endpoint up to its return: None stands for
\* FileNotFoundException, Some(path) for the FileResponse it returns
download_file(file_id) ==
    IF file_id \notin DOMAIN dbfiles THEN None
    ELSE get_file_path(dbfiles[file_id].stored_filename)

\* delete_application: [exc, apps, db] are the exception and the tables it
\* leaves.  The rows of the application's files go with it by the cascade;
\* the storage is not called
delete_application(application_id, dbio) ==
    IF application_id \notin DOMAIN dbapps
    THEN [exc |-> Some(Exc("ApplicationNotFoundException", <<application_id>>)),
          apps |-> dbapps, db |-> dbfiles]
    ELSE IF dbapps[application_id] # "draft"
    THEN [exc |-> Some(Exc("ValidationException", <<"status">>)),
          apps |-> dbapps, db |-> dbfiles]
    ELSE IF dbio = "commit"
    THEN [exc |-> Some(Exc("SQLAlchemyError", <<"commit">>)), apps |-> dbapps,
          db |-> dbfiles]
    ELSE [exc |-> None,
          apps |-> Remove(dbapps, application_id),
          db |-> [id \in { i \in DOMAIN dbfiles :
                             dbfiles[i].application_id # Some(application_id) }
                    |-> dbfiles[id]]]

\* db.query(File).filter(File.id == reference, File.file_type == file_type)
\* finds no row
BadReference(db, reference, file_type) ==
    /\ reference # None
    /\ \/ reference[1] \notin DOMAIN db
       \/ db[reference[1]].file_type # file_type

\* the files table with application_id of the referenced rows set to
\* application_id
Attached(db, student_id_file_id, passport_file_id, application_id) ==
    [id \in DOMAIN db |->
        IF Some(id) \in {student_id_file_id, passport_file_id}
        THEN [db[id] EXCEPT !.application_id = Some(application_id)]
        ELSE db[id]]

ServerError == Exc("HTTPException", <<"500">>)

\* create_application with id the value of uuid4: the application is added
\* and flushed, the referenced rows are moved to it, the audit log is
\* written and the session committed.  The ValidationException of a bad
\* reference is raised inside the try and caught by `except Exception`;
\* every handler rolls back.  dbio "integrity" is the IntegrityError of the
\* flush for a reference number that exists, the unique column that
\* generate_reference_number fills with four random characters; it is
\* re-raised as ValidationException with the message of
\* handle_integrity_error and no field.  "flush" and "commit" are another
\* SQLAlchemyError, "audit" any other exception
create_application(id, student_id_file_id, passport_file_id, dbio) ==
    IF dbio = "integrity"
    THEN [exc |-> Some(Exc("ValidationException",
                           <<"Reference number already exists">>)),
          apps |-> dbapps, db |-> dbfiles]
    ELSE IF dbio = "flush"
    THEN [exc |-> Some(DatabaseFailed("create_application")),
          apps |-> dbapps, db |-> dbfiles]
    ELSE IF BadReference(dbfiles, student_id_file_id, "student_id")
            \/ BadReference(dbfiles, passport_file_id, "passport")
            \/ dbio = "audit"
    THEN [exc |-> Some(ServerError), apps |-> dbapps, db |-> dbfiles]
    ELSE IF dbio = "commit"
    THEN [exc |-> Some(DatabaseFailed("create_application")),
          apps |-> dbapps, db |-> dbfiles]
    ELSE [exc |-> None,
          apps |-> Put(dbapps, id, "draft"),
          db |-> Attached(dbfiles, student_id_file_id, passport_file_id, id)]

\* the PUT handler: a draft takes the referenced rows over, and an
\* exception before the commit of line 376 leaves the session uncommitted.
\* After the commit the response is built with PersonalInfoSchema, a name
\* the module does not import: every update that is committed ends with
\* NameError
update_application(application_id, student_id_file_id, passport_file_id, dbio) ==
    IF application_id \notin DOMAIN dbapps
    THEN [exc |-> Some(Exc("ApplicationNotFoundException", <<application_id>>)),
          db |-> dbfiles]
    ELSE IF dbapps[application_id] # "draft"
    THEN [exc |-> Some(Exc("ValidationException", <<"status">>)), db |-> dbfiles]
    ELSE IF BadReference(dbfiles, student_id_file_id, "student_id")
    THEN [exc |-> Some(Exc("ValidationException", <<"student_id_file_id">>)),
          db |-> dbfiles]
    ELSE IF BadReference(dbfiles, passport_file_id, "passport")
    THEN [exc |-> Some(Exc("ValidationException", <<"passport_file_id">>)),
          db |-> dbfiles]
    ELSE IF dbio = "commit"
    THEN [exc |-> Some(Exc("SQLAlchemyError", <<"commit">>)), db |-> dbfiles]
    ELSE [exc |-> Some(Exc("NameError", <<"PersonalInfoSchema">>)),
          db |-> Attached(dbfiles, student_id_file_id, passport_file_id,
                          application_id)]

\* application.files has a row of the type
HasFile(application_id, file_type) ==
    \E id \in DOMAIN dbfiles :
        /\ dbfiles[id].application_id = Some(application_id)
        /\ dbfiles[id].file_type = file_type

\* submit_application: the exception it raises.  For a complete draft line
\* 457 sets the status on the session's object, and line 471 evaluates
\* datetime.utcnow() in a module that does not import datetime: NameError
\* before the commit of line 475, and get_db closes the session without it.
\* No outcome changes a table
submit_application(application_id) ==
    IF application_id \notin DOMAIN dbapps
    THEN Exc("ApplicationNotFoundException", <<application_id>>)
    ELSE IF dbapps[application_id] # "draft"
    THEN Exc("ValidationException", <<"status">>)
    ELSE IF ~ HasFile(application_id, "student_id")
            \/ ~ HasFile(application_id, "passport")
    THEN Exc("ValidationException", <<"files">>)
    ELSE Exc("NameError", <<"datetime">>)

\* export_application: sent is whether send_application_export returned
\* True; it raises EmailServiceException otherwise, which is caught.  The
\* first successful export of a submitted application makes it exported.
\* The rows of email_exports and of the audit log are not kept here
export_application(application_id, sent, dbio) ==
    IF application_id \notin DOMAIN dbapps
    THEN [exc |-> Some(Exc("ApplicationNotFoundException", <<application_id>>)),
          apps |-> dbapps]
    ELSE IF dbapps[application_id] \notin {"submitted", "draft"}
    THEN [exc |-> Some(Exc("ValidationException", <<"status">>)), apps |-> dbapps]
    ELSE IF dbio \in {"flush", "commit"}
    THEN [exc |-> Some(DatabaseFailed("export_application")), apps |-> dbapps]
    ELSE IF dbio = "audit"
    THEN [exc |-> Some(ServerError), apps |-> dbapps]
    ELSE [exc |-> None,
          apps |-> IF sent /\ dbapps[application_id] = "submitted"
                   THEN [dbapps EXCEPT ![application_id] = "exported"]
                   ELSE dbapps]

\* EmailRetryService.max_retries
max_retries == 3

\* _retry_single_export on an export of application_id: the applications
\* table it leaves in the session.  sent is whether send_application_export
\* returned True; a mail that is not sent changes the export alone
retry_single_export(apps, application_id, sent) ==
    IF sent /\ apps[application_id] = "submitted"
    THEN [apps EXCEPT ![application_id] = "exported"]
    ELSE apps

\* retry_export_manually: export is the row of email_exports with the id
\* asked for, None when there is none.  It returns export.is_sent after the
\* commit, and False after a rollback when the commit raises
retry_export_manually(export, force_retry, sent, dbio) ==
    IF export = None
    THEN [result |-> FALSE, apps |-> dbapps]
    ELSE IF ~ force_retry /\ export[1].retry_count >= max_retries
    THEN [result |-> FALSE, apps |-> dbapps]
    ELSE IF dbio = "commit"
    THEN [result |-> FALSE, apps |-> dbapps]
    ELSE [result |-> sent,
          apps |-> retry_single_export(dbapps, export[1].application_id, sent)]

\* _process_retry_queue: the exports ready for a retry are handled one
\* after the other by _retry_single_export, which changes the application
\* of its export alone, and one commit follows; an exception is logged.
\* sent is the set of applications of the ready exports whose mail is sent.
\* The applications table it leaves
process_retry_queue(sent, dbio) ==
    IF dbio = "commit" THEN dbapps
    ELSE [a \in DOMAIN dbapps |->
            retry_single_export(dbapps, a, a \in sent)[a]]

\* the values of the status column
ApplicationStatuses == { "draft", "submitted", "exported", "processed" }

\* ApplicationAdmin: the delete of sqladmin is session.delete on the row,
\* whatever its status; the rows of its files go with it by the cascade of
\* Application.files, and the storage is not called
admin_delete_application(application_id) ==
    [apps |-> Remove(dbapps, application_id),
     db |-> [id \in { i \in DOMAIN dbfiles :
                        dbfiles[i].application_id # Some(application_id) }
               |-> dbfiles[id]]]

\* the rows the form of FileAdmin can save in place of row: the application
\* is one that exists, the type one of the two the endpoints ask for, the
\* stored name and the hash those of any row, a name that was never stored
\* and the hash of the empty content
FileEdits(row) ==
    { [row EXCEPT !.application_id = Some(a), !.file_type = t,
                  !.stored_filename = n, !.file_hash = h] :
        a \in DOMAIN dbapps, t \in FileTypes,
        n \in { dbfiles[i].stored_filename : i \in DOMAIN dbfiles }
                \cup { NeverStored },
        h \in { dbfiles[i].file_hash : i \in DOMAIN dbfiles }
                \cup { <<HexDigest(<<>>)>> } }
    \ { row }

\* the ids uuid4 can return for an application: those that no application
\* has and no request in flight names
FreshApplications ==
    { id \in NewApplications \ DOMAIN dbapps :
        \A c \in Calls :
            IF calls[c].pc \in {"idle", "send"} THEN TRUE
            ELSE calls[c].application_id # Some(id) }

\* no row, no stored object and no request in flight carries an id yet
NoIds ==
    /\ dbfiles = Empty
    /\ localfs = Empty
    /\ s3objs = Empty
    /\ FreeCalls = Calls

\* upload_file up to the first await of store_file; the id is drawn, and the
\* file_type of the request read, once the upload is valid and the
\* application known.  The values of uuid4 are interchangeable: while nothing
\* carries an id the first of them is the one drawn.  The plaintext of a name
\* begins with the id, so the names of two uploads differ by their ids
\* whatever token_hex returns: one value of it is enough here
UploadBegin ==
    /\ HasInstance
    /\ steps < MaxSteps
    /\ FreeCalls # {}
    /\ \E file \in SvcUploads, application_id \in ApplicationIds :
       \E stores \in { validate_file(file) = None
                        /\ (application_id = None
                            \/ application_id[1] \in DOMAIN dbapps) } :
       \E file_type \in IF stores THEN FileTypes ELSE {"student_id"} :
       \E file_id \in IF stores /\ ~ NoIds THEN Uuids ELSE {<<49>>} :
       \E r1 \in {1} :
       \E u \in { upload_begin(file, file_type, application_id, file_id, dbapps,
                               [r1 |-> r1, iv1 |-> 1]) } :
         IF u.done
         THEN /\ last' = [op |-> "upload_file", file |-> file,
                          file_type |-> file_type,
                          application_id |-> application_id, file_id |-> file_id,
                          ok |-> FALSE, exc |-> u.exc, validation |-> u.validation,
                          store_attempted |-> FALSE, store_ok |-> FALSE,
                          wrote |-> FALSE, compensated |-> FALSE,
                          deleted |-> FALSE, committed |-> FALSE,
                          delio |-> IoOk,
                          name |-> u.call.name, hash |-> <<>>, size |-> 0,
                          backend |-> u.call.backend, bucket |-> u.call.bucket]
              /\ calls' = calls
         ELSE /\ last' = Awaiting
              /\ calls' = [calls EXCEPT ![Min(FreeCalls)] = u.call]
    /\ steps' = steps + 1
    /\ UNCHANGED <<instance, sysconf, localfs, s3objs, dbfiles, dbapps, stored>>

\* the second seek of store_file is done: store_file takes its last step
\* and upload_file runs to its end on what it returns or raises; the
\* database and the compensating delete are drawn once the store has
\* succeeded
UploadFinish ==
    /\ \E c \in Calls :
         /\ calls[c].pc = "write"
         /\ calls[c].op = "upload_file"
         /\ \E r2 \in IF calls[c].backend = "local" /\ calls[c].name \in DOMAIN localfs
                      THEN Rand ELSE {1} :
            \E io \in StoreIo(calls[c].backend, calls[c].content) :
            \E r \in { store_finish(calls[c], localfs, s3objs,
                                    [r4 |-> 1, r2 |-> r2, iv2 |-> 1], io) } :
            \E dbio \in IF r.ok THEN DbIo ELSE {"ok"} :
            \E delio \in IF r.ok THEN {IoOk, IoFail} ELSE {IoOk} :
            \E u \in { upload_after_store(calls[c], r, dbfiles, dbapps, io,
                                          dbio, delio) } :
              /\ localfs' = u.fs
              /\ s3objs' = u.objs
              /\ dbfiles' = u.db
              /\ stored' = IF u.store_ok /\ ~ u.deleted
                           THEN Append(Forget(u.name), StoredRecord(u))
                           ELSE IF u.compensated THEN Forget(u.name) ELSE stored
              /\ last' = [op |-> "upload_file", file |-> calls[c].arg,
                          file_type |-> calls[c].file_type,
                          application_id |-> calls[c].application_id,
                          file_id |-> calls[c].file_id,
                          ok |-> u.ok, exc |-> u.exc, validation |-> None,
                          store_attempted |-> TRUE,
                          store_ok |-> u.store_ok, wrote |-> u.wrote,
                          compensated |-> u.compensated, deleted |-> u.deleted,
                          committed |-> u.db # dbfiles,
                          delio |-> delio,
                          name |-> u.name, hash |-> u.hash, size |-> u.size,
                          backend |-> u.backend, bucket |-> u.bucket]
              /\ calls' = [calls EXCEPT ![c] = IdleCall]
    /\ UNCHANGED <<instance, sysconf, dbapps, steps>>

SvcDeleteFile ==
    /\ HasInstance
    /\ steps < MaxSteps
    /\ \E file_id \in Uuids :
       \E io \in IF file_id \in DOMAIN dbfiles THEN {IoOk, IoFail} ELSE {IoOk} :
       \E dbio \in IF file_id \in DOMAIN dbfiles THEN {"ok", "audit", "commit"}
                   ELSE {"ok"} :
       \E d \in { svc_delete_file(file_id, io, dbio) } :
          /\ localfs' = d.fs
          /\ s3objs' = d.objs
          /\ dbfiles' = d.db
          /\ stored' = IF file_id \in DOMAIN dbfiles
                       THEN Forget(dbfiles[file_id].stored_filename) ELSE stored
          /\ last' = [op |-> "svc_delete_file", file_id |-> file_id, ok |-> d.ok,
                      exc |-> d.exc, storage_deleted |-> d.storage_deleted]
    /\ steps' = steps + 1
    /\ UNCHANGED <<instance, sysconf, dbapps, calls>>

\* the read can fail only where the row is found and its file is opened
SvcVerifyFileIntegrity ==
    /\ HasInstance
    /\ steps < MaxSteps
    /\ \E file_id \in Uuids :
       \E io \in IF file_id \in DOMAIN dbfiles
                 THEN IF get_file_path(dbfiles[file_id].stored_filename) # None
                      THEN {IoOk, IoFail} ELSE {IoOk}
                 ELSE {IoOk} :
         last' = [op |-> "svc_verify_file_integrity", file_id |-> file_id,
                  result |-> svc_verify_file_integrity(file_id, io)]
    /\ steps' = steps + 1
    /\ UNCHANGED <<instance, sysconf, localfs, s3objs, dbfiles, dbapps, calls,
                   stored>>

\* the download endpoint: the handler looks the row and the path up and
\* returns; with a path, the response is still to be sent
DownloadFile ==
    /\ HasInstance
    /\ steps < MaxSteps
    /\ FreeCalls # {}
    /\ \E file_id \in Uuids :
       \E path \in { download_file(file_id) } :
         IF path = None
         THEN /\ last' = [op |-> "download_file", name |-> file_id,
                          result |-> None, sent |-> FALSE, row |-> sysconf,
                          backend |-> "local"]
              /\ calls' = calls
         ELSE /\ last' = Awaiting
              /\ calls' = [calls EXCEPT ![Min(FreeCalls)] =
                             [pc |-> "send", op |-> "download_file",
                              name |-> file_id, path |-> path[1],
                              row |-> sysconf]]
    /\ steps' = steps + 1
    /\ UNCHANGED <<instance, sysconf, localfs, s3objs, dbfiles, dbapps, stored>>

\* DELETE /applications/{id}
DeleteApplication ==
    /\ HasInstance
    /\ steps < MaxSteps
    /\ \E application_id \in AllApplications :
       \E dbio \in IF application_id \in DOMAIN dbapps
                      /\ dbapps[application_id] = "draft"
                   THEN {"ok", "commit"} ELSE {"ok"} :
       \E d \in { delete_application(application_id, dbio) } :
          /\ dbapps' = d.apps
          /\ dbfiles' = d.db
          /\ last' = [op |-> "delete_application",
                      application_id |-> application_id, exc |-> d.exc]
    /\ steps' = steps + 1
    /\ UNCHANGED <<instance, sysconf, localfs, s3objs, calls, stored>>

\* POST /applications/; the audit log and the commit are drawn when the
\* handler reaches them
CreateApplication ==
    /\ HasInstance
    /\ steps < MaxSteps
    /\ \E id \in FreshApplications :
         /\ \E student_id_file_id \in FileReferences,
               passport_file_id \in FileReferences :
            \E attaches \in { ~ BadReference(dbfiles, student_id_file_id,
                                              "student_id")
                               /\ ~ BadReference(dbfiles, passport_file_id,
                                                 "passport") } :
            \E dbio \in IF attaches THEN DbIo \cup {"integrity"}
                        ELSE {"ok", "integrity", "flush"} :
            \E r \in { create_application(id, student_id_file_id,
                                          passport_file_id, dbio) } :
              /\ dbapps' = r.apps
              /\ dbfiles' = r.db
              /\ last' = [op |-> "create_application", application_id |-> id,
                          exc |-> r.exc]
    /\ steps' = steps + 1
    /\ UNCHANGED <<instance, sysconf, localfs, s3objs, calls, stored>>

\* PUT /applications/{id}; the commit is drawn when the handler reaches it
UpdateApplication ==
    /\ HasInstance
    /\ steps < MaxSteps
    /\ \E application_id \in AllApplications :
       \E student_id_file_id \in FileReferences,
          passport_file_id \in FileReferences :
       \E commits \in { update_application(application_id, student_id_file_id,
                                            passport_file_id, "ok").exc[1].cls
                            = "NameError" } :
       \E dbio \in IF commits THEN {"ok", "commit"} ELSE {"ok"} :
       \E r \in { update_application(application_id, student_id_file_id,
                                     passport_file_id, dbio) } :
          /\ dbfiles' = r.db
          /\ last' = [op |-> "update_application",
                      application_id |-> application_id, exc |-> r.exc]
    /\ steps' = steps + 1
    /\ UNCHANGED <<instance, sysconf, localfs, s3objs, dbapps, calls, stored>>

\* POST /applications/{id}/submit
SubmitApplication ==
    /\ HasInstance
    /\ steps < MaxSteps
    /\ \E application_id \in AllApplications :
         last' = [op |-> "submit_application", application_id |-> application_id,
                  exc |-> Some(submit_application(application_id))]
    /\ steps' = steps + 1
    /\ UNCHANGED <<instance, sysconf, localfs, s3objs, dbfiles, dbapps, calls,
                   stored>>

\* POST /applications/{id}/export.  The handler awaits the mail between its
\* flush and its commit; it reads the status before the await and writes it
\* after; the mail and the database are drawn when it reaches them.  A
\* request that commits meanwhile leaves the files table as it
\* would have had it run before, and the status the handler then commits is
\* one it also commits when it runs alone
ExportApplication ==
    /\ HasInstance
    /\ steps < MaxSteps
    /\ \E application_id \in AllApplications :
       \E exports \in { IF application_id \in DOMAIN dbapps
                          THEN dbapps[application_id] \in {"submitted", "draft"}
                          ELSE FALSE } :
       \E sent \in IF exports THEN BOOLEAN ELSE {FALSE} :
       \E dbio \in IF exports THEN DbIo ELSE {"ok"} :
       \E r \in { export_application(application_id, sent, dbio) } :
          /\ dbapps' = r.apps
          /\ last' = [op |-> "export_application",
                      application_id |-> application_id, sent |-> sent,
                      exc |-> r.exc]
    /\ steps' = steps + 1
    /\ UNCHANGED <<instance, sysconf, localfs, s3objs, dbfiles, calls, stored>>

\* EmailRetryService.retry_export_manually.  The rows of email_exports are
\* not kept here: export_application adds one for every call and
\* EmailExportAdmin saves any, each of an application that exists.  The mail
\* is awaited as in export_application
RetryExportManually ==
    /\ HasInstance
    /\ steps < MaxSteps
    /\ \E export \in {None} \cup
                     { Some([application_id |-> a, retry_count |-> n]) :
                         a \in DOMAIN dbapps, n \in {0, max_retries} },
          force_retry \in BOOLEAN :
       \E retried \in { export # None
                          /\ (force_retry \/ export[1].retry_count < max_retries) } :
       \E sent \in IF retried THEN BOOLEAN ELSE {FALSE} :
       \E dbio \in IF retried THEN {"ok", "commit"} ELSE {"ok"} :
       \E r \in { retry_export_manually(export, force_retry, sent, dbio) } :
          /\ dbapps' = r.apps
          /\ last' = [op |-> "retry_export_manually", result |-> r.result]
    /\ steps' = steps + 1
    /\ UNCHANGED <<instance, sysconf, localfs, s3objs, dbfiles, calls, stored>>

\* one round of the retry worker
ProcessRetryQueue ==
    /\ HasInstance
    /\ steps < MaxSteps
    /\ \E sent \in SUBSET DOMAIN dbapps, dbio \in {"ok", "commit"} :
          /\ dbapps' = process_retry_queue(sent, dbio)
          /\ last' = [op |-> "process_retry_queue"]
    /\ steps' = steps + 1
    /\ UNCHANGED <<instance, sysconf, localfs, s3objs, dbfiles, calls, stored>>

\* ApplicationAdmin: the form is saved with a status, for an application
\* that exists or for a new one, whose id is the value of uuid4.  What the
\* form does to the files of the application is a save or a delete of
\* FileAdmin on each of their rows
AdminSaveApplication ==
    /\ HasInstance
    /\ steps < MaxSteps
    /\ \E application_id \in DOMAIN dbapps \cup FreshApplications,
          status \in ApplicationStatuses :
          /\ application_id \in DOMAIN dbapps => dbapps[application_id] # status
          /\ dbapps' = Put(dbapps, application_id, status)
          /\ last' = [op |-> "admin_save_application"]
    /\ steps' = steps + 1
    /\ UNCHANGED <<instance, sysconf, localfs, s3objs, dbfiles, calls, stored>>

AdminDeleteApplication ==
    /\ HasInstance
    /\ steps < MaxSteps
    /\ \E application_id \in DOMAIN dbapps :
       \E d \in { admin_delete_application(application_id) } :
          /\ dbapps' = d.apps
          /\ dbfiles' = d.db
          /\ last' = [op |-> "admin_delete_application"]
    /\ steps' = steps + 1
    /\ UNCHANGED <<instance, sysconf, localfs, s3objs, calls, stored>>

\* FileAdmin: a row is saved with other values; can_create is False
AdminEditFile ==
    /\ HasInstance
    /\ steps < MaxSteps
    /\ \E file_id \in DOMAIN dbfiles :
       \E row \in FileEdits(dbfiles[file_id]) :
          /\ dbfiles' = Put(dbfiles, file_id, row)
          /\ last' = [op |-> "admin_edit_file"]
    /\ steps' = steps + 1
    /\ UNCHANGED <<instance, sysconf, localfs, s3objs, dbapps, calls, stored>>

\* FileAdmin: the row is deleted; the storage is not called
AdminDeleteFile ==
    /\ HasInstance
    /\ steps < MaxSteps
    /\ \E file_id \in DOMAIN dbfiles :
          /\ dbfiles' = Remove(dbfiles, file_id)
          /\ last' = [op |-> "admin_delete_file"]
    /\ steps' = steps + 1
    /\ UNCHANGED <<instance, sysconf, localfs, s3objs, dbapps, calls, stored>>

Next ==
    \/ StoreBegin
    \/ StoreSeek
    \/ StoreRead
    \/ StoreWrite
    \/ DeleteFile
    \/ Retrieve
    \/ SendFile
    \/ VerifyFileIntegrity
    \/ GetPresignedUrl
    \/ AdminSetConfig
    \/ ExternalModify

Spec == Init /\ [][Next]_vars

\* the calls that reach the storage through FileService, and the calls on
\* the applications, the retries of the mail and the saves of the admin
\* views, which change the tables it reads
SvcNext ==
    \/ UploadBegin
    \/ StoreSeek
    \/ StoreRead
    \/ UploadFinish
    \/ SvcDeleteFile
    \/ SvcVerifyFileIntegrity
    \/ DownloadFile
    \/ SendFile
    \/ CreateApplication
    \/ UpdateApplication
    \/ SubmitApplication
    \/ ExportApplication
    \/ DeleteApplication
    \/ ExternalModify
    \/ RetryExportManually
    \/ ProcessRetryQueue
    \/ AdminSaveApplication
    \/ AdminDeleteApplication
    \/ AdminEditFile
    \/ AdminDeleteFile

\* the service starts on a database that holds a draft and a submitted
\* application, as a save of ApplicationAdmin leaves it: submit_application
\* commits no status
SvcInit ==
    /\ Started({RepoSettings, LocalSettings, RemoteSettings}, {TRUE},
               {[a \in Applications \cup SubmittedApplications |->
                    IF a \in Applications THEN "draft" ELSE "submitted"]})
    /\ last = [op |-> "init"]

SvcSpec == SvcInit /\ [][SvcNext]_vars

(***************************************************************************)
(* validate_file on its own: a request carries an upload, and the storage *)
(* validates it.                                                           *)
(***************************************************************************)
ValInit ==
    /\ Started({LocalSettings}, {TRUE}, {[a \in Applications |-> "draft"]})
    /\ \E file \in Uploads : last = [op |-> "upload", file |-> file]

ValidateFile ==
    /\ last.op = "upload"
    /\ \E v \in { validate_file_run(last.file) } :
         last' = [op |-> "validate_file", file |-> last.file, exc |-> v.exc,
                  after |-> v.file, nread |-> v.nread, read_at |-> v.read_at]
    /\ UNCHANGED <<instance, sysconf, localfs, s3objs, dbfiles, dbapps, calls,
                   stored, steps>>

ValNext == ValidateFile

ValSpec == ValInit /\ [][ValNext]_vars

(***************************************************************************)
(* An upload as FileService handles it, on a fresh storage: validate_file *)
(* and, when it raises nothing, store_file on the same stream.            *)
(***************************************************************************)
UpInit ==
    /\ Started({LocalSettings, RemoteSettings}, {TRUE},
               {[a \in Applications |-> "draft"]})
    /\ \E file \in Uploads : last = [op |-> "upload", file |-> file]

\* store_file is called with the stream validate_file has left
StoreValidated ==
    /\ last.op = "validate_file"
    /\ last.exc = None
    /\ \E file_id \in FileIds, r1 \in Rand :
         calls' = [calls EXCEPT ![Min(FreeCalls)] =
                     Began(store_begin(last.after, file_id, None,
                                       [r1 |-> r1, iv1 |-> 1], TRUE), sysconf)]
    /\ last' = Awaiting
    /\ steps' = steps + 1
    /\ UNCHANGED <<instance, sysconf, localfs, s3objs, dbfiles, dbapps, stored>>

UpNext == ValidateFile \/ StoreValidated \/ StoreSeek \/ StoreRead \/ StoreWrite

UpSpec == UpInit /\ [][UpNext]_vars

(***************************************************************************)
(* Concurrent store_file calls alone, on a fresh local or remote storage.  *)
(***************************************************************************)
ConcInit ==
    /\ Started({LocalSettings, RemoteSettings}, {TRUE},
               {[a \in Applications |-> "draft"]})
    /\ last = [op |-> "init"]

ConcNext == StoreBegin \/ StoreSeek \/ StoreRead \/ StoreWrite

ConcSpec == ConcInit /\ [][ConcNext]_vars

(***************************************************************************)
(* The name operations alone: a name is generated for a file name and an  *)
(* id, then decrypt_filename is applied to it or to a name made from it.  *)
(***************************************************************************)
FnAccent == <<233, 46, 106, 112, 103>>         \* e-acute .jpg
FnTrail == <<103, 46>>                         \* g.
FnTwo == <<104, 46, 116, 46, 103, 122>>        \* h.t.gz

NameFilenames ==
    { <<>>, FnJpg, FnPng, FnBare, FnDot, FnAccent, FnTrail, FnTwo, FnDir, FnSlash,
      FnUpper }

NameIds == FileIds \cup { <<50, 45, 98>> }     \* 2-b

\* the names generate_secure_filename can return under a key
ProducedNames(key) ==
    { generate_secure_filename(key, fn, id, r, iv) :
        fn \in NameFilenames, id \in NameIds, r \in Rand, iv \in Rand }

ExeExt == <<46, 101, 120, 101>>                \* .exe

\* a token of which one byte was changed: its IV is no longer the signed one
TamperToken(token) == [token EXCEPT !.iv = token.iv + 1]

\* texts that hold no token
PlainNames ==
    { [b64 |-> None, rest |-> t] :
        t \in { <<>>, <<97, 98, 99>>, <<97, 98, 99, 100>>, <<33, 33, 33>>,
                FnDot, Unknown } }

\* what a caller can hand to decrypt_filename once `name` was produced for
\* (original_filename, file_id, r, iv)
NameInputs(name, original_filename, file_id, r, iv) ==
    { name,
      [name EXCEPT !.rest = ExeExt],
      [name EXCEPT !.rest = <<>>],
      [name EXCEPT !.rest = <<33>> \o name.rest],
      [name EXCEPT !.b64 = Some(TamperToken(name.b64[1]))],
      generate_secure_filename(get_or_create_encryption_key("foreign"),
                               original_filename, file_id, r, iv) }
    \cup PlainNames

NameInit ==
    /\ last = [op |-> "init"]
    /\ Started({LocalSettings}, {TRUE}, {[a \in Applications |-> "draft"]})

GenerateName ==
    /\ last.op = "init"
    /\ \E fn \in NameFilenames, id \in NameIds, r \in Rand, iv \in Rand :
         last' = [op |-> "generate_secure_filename", original_filename |-> fn,
                  file_id |-> id, r |-> r, iv |-> iv,
                  key |-> encryption_key, secret |-> settings.SECRET_KEY,
                  made_on |-> storage_type, restarted |-> FALSE,
                  name |-> generate_secure_filename(encryption_key, fn, id,
                                                    r, iv)]
    /\ UNCHANGED <<instance, sysconf, localfs, s3objs, dbfiles, dbapps, calls,
                   stored, steps>>

\* the process restarts: a new SecureFileStorage is constructed from the
\* same settings, upload_dir being kept
Restart ==
    /\ last.op = "generate_secure_filename"
    /\ ~last.restarted
    /\ \E i \in { InitStorage(settings, TRUE) } :
         /\ storage_type' = i.storage_type
         /\ s3_client' = i.s3_client
         /\ encryption_key' = i.encryption_key
    /\ last' = [last EXCEPT !.restarted = TRUE]
    /\ steps' = steps + 1
    /\ UNCHANGED <<settings, sysconf, localfs, s3objs, dbfiles, dbapps, calls,
                   stored>>

DecryptName ==
    /\ last.op = "generate_secure_filename"
    /\ \E input \in NameInputs(last.name, last.original_filename,
                               last.file_id, last.r, last.iv) :
         \E d \in { decrypt_filename_run(encryption_key, input) } :
           last' = [op |-> "decrypt_filename",
                    original_filename |-> last.original_filename,
                    file_id |-> last.file_id, name |-> last.name,
                    key |-> last.key, secret |-> last.secret,
                    made_on |-> last.made_on, restarted |-> last.restarted,
                    input |-> input, raised |-> d.raised, value |-> d.value]
    /\ UNCHANGED <<instance, sysconf, localfs, s3objs, dbfiles, dbapps, calls,
                   stored, steps>>

NameNext == GenerateName \/ Restart \/ DecryptName

NameSpec == NameInit /\ [][NameNext]_vars

(***************************************************************************)
(* The key across instances: a name is generated, the process is started  *)
(* again on settings that may have changed, and the name is reversed.      *)
(***************************************************************************)
\* the secret was replaced
RotatedSettings == [LocalSettings EXCEPT !.SECRET_KEY = "rotated"]

\* the settings a process can start on: local, S3 with and without its
\* credentials, no bucket named, and another secret
KeySettings ==
    { st \in SettingsChoices : "STORAGE_TYPE" \in DOMAIN st }
    \cup { LocalSettings, RemoteSettings, RotatedSettings }

KeyInit ==
    /\ last = [op |-> "init"]
    /\ Started(KeySettings \ {RotatedSettings}, BOOLEAN,
               {[a \in Applications |-> "draft"]})

\* the process is started again: get_settings() returns what the
\* environment now holds and SecureFileStorage() is constructed from it,
\* with a boto3 client that can be built or not
NewInstance ==
    /\ last.op = "generate_secure_filename"
    /\ ~ last.restarted
    /\ \E st \in KeySettings, client_ok \in BOOLEAN :
       \E i \in { InitStorage(st, client_ok) } :
         /\ settings' = st
         /\ storage_type' = i.storage_type
         /\ s3_client' = i.s3_client
         /\ encryption_key' = i.encryption_key
    /\ last' = [last EXCEPT !.restarted = TRUE]
    /\ steps' = steps + 1
    /\ UNCHANGED <<sysconf, localfs, s3objs, dbfiles, dbapps, calls, stored>>

KeyNext == GenerateName \/ NewInstance \/ DecryptName

KeySpec == KeyInit /\ [][KeyNext]_vars

(***************************************************************************)
(* The properties.                                                         *)
(***************************************************************************)
\* the object the latest store_file or upload_file wrote, Some(bytes), or
\* None when nothing is under the name it used
Written ==
    IF last.backend = "s3"
    THEN IF last.bucket # None /\ <<last.bucket[1], last.name>> \in DOMAIN s3objs
         THEN Some(s3objs[<<last.bucket[1], last.name>>]) ELSE None
    ELSE IF last.name \in DOMAIN localfs THEN Some(localfs[last.name]) ELSE None

\* C1: when validate_file rejects an upload, upload_file writes to no
\* backend, persists no record, never calls store_file, and raises the
\* validation exception itself
C1_ValidationAbortsBeforeIO ==
    [][(last'.op = "upload_file" /\ last'.validation # None)
         => /\ localfs' = localfs
            /\ s3objs' = s3objs
            /\ dbfiles' = dbfiles
            /\ ~ last'.store_attempted
            /\ ~ last'.ok
            /\ last'.exc = last'.validation
            /\ IsFileUploadException(last'.exc[1])]_vars

\* a rejected upload arriving after one that left its row in the table
C1_Witness ==
    /\ last.op = "upload_file"
    /\ last.validation # None
    /\ dbfiles # Empty

\* C2: after a successful store_file, on either backend, the returned hash
\* is "sha256:" followed by the digest of exactly the bytes now stored under
\* the returned name
C2_HashOfWrittenBytes ==
    (last.op = "store_file" /\ last.ok)
      => /\ Written # None
         /\ last.hash = <<Sha256Prefix, HexDigest(Written[1])>>

\* a successful store on S3 after a successful store in upload_dir
C2_Witness ==
    /\ last.op = "store_file"
    /\ last.ok
    /\ last.backend = "s3"
    /\ \E i \in 1..Len(stored) : stored[i].backend = "local"

\* C3: retrieve of a name a store returned, the object neither deleted nor
\* modified since, returns the uploaded bytes whichever backend holds them
C3_RetrieveReturnsUpload ==
    last.op = "retrieve"
      => \A i \in 1..Len(stored) :
           (stored[i].name = last.name /\ stored[i].intact)
             => last.result = Some(stored[i].content)

\* C4: verify_file_integrity with the name and hash of a successful local
\* store, reading without an I/O error, is true while the file holds the
\* bytes stored and false once they have been modified from outside
C4_VerifyTracksLocalBytes ==
    (last.op = "verify_file_integrity" /\ last.io = IoOk)
      => \A i \in 1..Len(stored) :
           (stored[i].backend = "local" /\ stored[i].name = last.name
              /\ stored[i].hash = last.expected)
             => (last.result <=> (last.name \in DOMAIN localfs
                                    /\ localfs[last.name] = stored[i].content))

\* C5: no store_file call changes or removes an object that was there
\* before the call
C5_StoreNeverOverwrites ==
    [][last'.op = "store_file"
         => /\ \A n \in DOMAIN localfs :
                 n \in DOMAIN localfs' /\ localfs'[n] = localfs[n]
            /\ \A k \in DOMAIN s3objs :
                 k \in DOMAIN s3objs' /\ s3objs'[k] = s3objs[k]]_vars

\* C6: when the name generated again after a collision exists as well,
\* store_file fails with StorageNameCollision and writes nothing
C6_SecondCollisionFails ==
    [][(last'.op = "store_file" /\ last'.collided /\ last'.existed)
         => /\ ~ last'.ok
            /\ last'.exc # None
            /\ last'.exc[1].cls = "StorageNameCollision"
            /\ localfs' = localfs
            /\ s3objs' = s3objs]_vars

\* C7: the names returned by the successful stores not deleted since are
\* pairwise distinct within a backend namespace
C7_NamesUnique ==
    \A i, j \in 1..Len(stored) :
      (i # j /\ stored[i].backend = stored[j].backend
         /\ stored[i].bucket = stored[j].bucket)
        => stored[i].name # stored[j].name

\* C8: when upload_file raises, nothing that the call wrote is left under
\* the name it used (the compensating delete_file, where there is one, not
\* failing itself)
C8_FailedUploadLeavesNothing ==
    (last.op = "upload_file" /\ ~ last.ok /\ last.wrote /\ last.delio = IoOk)
      => Written = None

\* C9: after a failed local store_file no file exists under the name it had
\* picked, a name that was free before the call
C9_FailedStoreLeavesNoFile ==
    (last.op = "store_file" /\ ~ last.ok /\ last.backend = "local"
       /\ ~ last.existed)
      => last.name \notin DOMAIN localfs

\* the backend the configuration in force resolves to: the SystemConfig row
\* once the admin view has saved one
ConfiguredBackend ==
    store_backend(get_config(Some(sysconf)),
                  store_client(get_config(Some(sysconf)), TRUE))

\* C10: once a SystemConfig row is saved, every store, retrieve, delete,
\* verify and presign call begun since acts on the backend that row
\* configures
C10_CallsFollowConfiguration ==
    (sysconf # None
       /\ last.op \in {"store_file", "retrieve", "delete_file",
                       "verify_file_integrity", "get_presigned_url"}
       /\ (last.op \in {"store_file", "retrieve"} => last.row = sysconf))
      => last.backend = ConfiguredBackend

\* the configuration the latest store_file resolved
LastConfig == last.config

\* the configuration names S3 but gives no usable remote: the client cannot
\* be constructed, there is no access key and no client from startup, or no
\* bucket is named anywhere
RemoteUnusable(config, client_ok) ==
    /\ config.storage_type = S3Type
    /\ \/ config.s3_access_key # None /\ ~ client_ok
       \/ config.s3_access_key = None /\ s3_client = None
       \/ store_bucket(config) = None

\* C11: a store_file whose configuration names S3 without a usable remote
\* writes the bytes to upload_dir and succeeds, the disk permitting
C11_MisconfiguredRemoteFallsBack ==
    (last.op = "store_file" /\ last.io = IoOk
       /\ RemoteUnusable(LastConfig, last.client_ok))
      => /\ last.ok
         /\ last.backend = "local"
         /\ Written = Some(last.file.content)

(***************************************************************************)
(* Properties of validate_file.                                            *)
(***************************************************************************)
\* the declared size is within the maximum, or not declared
SizeWithinMax(file) ==
    file.size = None \/ file.size[1] <= MAX_FILE_SIZE

\* the upload left the stream untouched
StreamUntouched == last.nread = 0 /\ last.after = last.file

\* C12: a declared size above MAX_FILE_SIZE gives FileSizeException(max,
\* actual) with nothing read from the stream; a declared size equal to the
\* maximum is not rejected for its size
C12_OversizeRejectedUnread ==
    last.op = "validate_file"
      => /\ (last.file.size # None /\ last.file.size[1] > MAX_FILE_SIZE)
              => /\ last.exc = Some(Exc("FileSizeException",
                                        <<MAX_FILE_SIZE, last.file.size[1]>>))
                 /\ StreamUntouched
         /\ last.file.size = Some(MAX_FILE_SIZE)
              => (last.exc = None \/ last.exc[1].cls # "FileSizeException")

\* an oversized upload whose content holds a banned pattern
C12_Witness ==
    /\ last.op = "validate_file"
    /\ last.file.size = Some(MAX_FILE_SIZE + 1)
    /\ last.file.content = JpegBytes \o <<60, 37>>
    /\ last.exc # None

\* C13: a declared type outside ALLOWED_FILE_TYPES, the size within the
\* maximum, gives FileTypeException for that type with nothing read from
\* the stream
C13_TypeRejectedUnread ==
    (last.op = "validate_file" /\ SizeWithinMax(last.file)
       /\ ~ InSeq(last.file.content_type, ALLOWED_FILE_TYPES))
      => /\ last.exc = Some(Exc("FileTypeException",
                                <<"type", last.file.content_type>>))
         /\ StreamUntouched

\* text/plain declared for bytes with a banned pattern, unread
C13_Witness ==
    /\ last.op = "validate_file"
    /\ last.file.content_type = "text/plain"
    /\ last.file.content = <<60, 37>>
    /\ SizeWithinMax(last.file)
    /\ last.exc # None

\* the upload passes the size and the type stages
ExtensionReached(file) ==
    /\ SizeWithinMax(file)
    /\ InSeq(file.content_type, ALLOWED_FILE_TYPES)

\* the extension of the file name of the upload, lower-cased; an upload
\* without a file name has none
DeclaredExtension(file) ==
    IF file.filename = None THEN <<>> ELSE Lower(Suffix(file.filename[1]))

\* the exception is the extension stage's
IsExtensionError(exc) ==
    exc # None /\ exc[1].cls = "FileTypeException" /\ exc[1].args[1] = "ext"

\* C14: every upload that passes the size and the type stages and whose
\* extension, lower-cased, is none of .jpg .jpeg .png .pdf gives
\* FileTypeException for the extension, and an extension of the set in any
\* letter case is not rejected for its extension
C14_ExtensionCaseInsensitive ==
    (last.op = "validate_file" /\ ExtensionReached(last.file))
      => (IsExtensionError(last.exc)
            <=> DeclaredExtension(last.file) \notin allowed_extensions)

\* the content scan is reached
ScanReached(file) ==
    /\ SizeWithinMax(file)
    /\ InSeq(file.content_type, ALLOWED_FILE_TYPES)
    /\ (file.filename # None /\ file.filename[1] # <<>>)
         => Lower(Suffix(file.filename[1])) \in allowed_extensions

\* the first 1KB of the content
FirstKB(content) ==
    SubSeq(content, 1, IF Len(content) < 1024 THEN Len(content) ELSE 1024)

\* a banned pattern occurs in the first 1KB, letter case ignored
BannedInFirstKB(content) ==
    LET lowered == LowerBytes(FirstKB(content))
    IN \E i \in 1..Len(suspicious_patterns) :
         Contains(lowered, suspicious_patterns[i])

\* C15: once the scan is reached, content with a banned pattern in its
\* first 1KB, in any letter case, gives MalwareDetectedException whatever
\* the declared type
C15_BannedPatternRejected ==
    (last.op = "validate_file" /\ ScanReached(last.file)
       /\ BannedInFirstKB(last.file.content))
      => (last.exc # None /\ last.exc[1].cls = "MalwareDetectedException")

\* a PNG with its own magic number and "<SCRIPT" in upper case
C15_Witness ==
    /\ last.op = "validate_file"
    /\ last.file.content_type = "image/png"
    /\ last.file.content = PngBytes \o <<60, 83, 67, 82, 73, 80, 84>>
    /\ last.exc # None
    /\ last.exc[1].cls = "MalwareDetectedException"

\* the magic number of a declared type
Magic(content_type) ==
    CASE content_type = "image/jpeg" -> <<255, 216, 255>>
      [] content_type = "image/png" -> <<137, 80, 78, 71, 13, 10, 26, 10>>
      [] content_type = "application/pdf" -> <<37, 80, 68, 70, 45>>

\* the exception is the magic-number stage's
IsSignatureError(exc) ==
    exc # None /\ exc[1].cls = "FileTypeException" /\ exc[1].args[1] = "signature"

\* C16: once the magic-number check is reached, content that does not
\* start with the magic number of the declared type gives the signature
\* FileTypeException, and content that does is not rejected
C16_SignatureMismatchRejected ==
    (last.op = "validate_file" /\ ScanReached(last.file)
       /\ ~ BannedInFirstKB(last.file.content))
      => IF StartsWith(last.file.content, Magic(last.file.content_type))
         THEN last.exc = None
         ELSE last.exc = Some(Exc("FileTypeException",
                                  <<"signature", last.file.content_type>>))

\* PNG bytes declared as a JPEG
C16_Witness ==
    /\ last.op = "validate_file"
    /\ last.file.content_type = "image/jpeg"
    /\ last.file.content = PngBytes
    /\ IsSignatureError(last.exc)

\* the stage an outcome of validate_file comes from: 1 size, 2 type,
\* 3 extension, 4 content scan, 5 magic number, 6 none
StageOf(exc) ==
    IF exc = None THEN 6
    ELSE IF exc[1].cls = "FileSizeException" THEN 1
    ELSE IF exc[1].cls = "MalwareDetectedException" THEN 4
    ELSE IF exc[1].args[1] = "type" THEN 2
    ELSE IF exc[1].args[1] = "ext" THEN 3
    ELSE 5

\* the stages an upload fails, each taken on its own
FailingStages(file) ==
    (IF SizeWithinMax(file) THEN {} ELSE {1})
    \cup (IF InSeq(file.content_type, ALLOWED_FILE_TYPES) THEN {} ELSE {2})
    \cup (IF file.filename # None /\ file.filename[1] # <<>>
             /\ Lower(Suffix(file.filename[1])) \notin allowed_extensions
          THEN {3} ELSE {})
    \cup (IF BannedInFirstKB(file.content) THEN {4} ELSE {})
    \cup (IF file.content_type \in DOMAIN signatures
             /\ ~ StartsWith(file.content, Magic(file.content_type))
          THEN {5} ELSE {})
    \cup {6}

\* C17: validate_file ends with the outcome of the earliest stage the
\* upload fails, in the order size, type, extension, content scan, magic
\* number, and reads nothing when one of the first three fails
C17_FirstFailingStage ==
    last.op = "validate_file"
      => LET failing == FailingStages(last.file)
         IN /\ \A k \in failing : StageOf(last.exc) <= k
            /\ StageOf(last.exc) \in failing
            /\ StageOf(last.exc) <= 3 => StreamUntouched

\* oversized and of a type not allowed: FileSizeException
C17_Witness ==
    /\ last.op = "validate_file"
    /\ last.file.size = Some(MAX_FILE_SIZE + 1)
    /\ last.file.content_type = "text/plain"
    /\ last.file.content = <<60, 37>>
    /\ StageOf(last.exc) = 1

\* C18: validate_file leaves the stream at the offset it found it at and
\* its content as it was, having read at most 1KB from offset 0, whether it
\* raises or returns
C18_StreamOffsetRestored ==
    last.op = "validate_file"
      => /\ last.after = last.file
         /\ last.nread <= 1024
         /\ last.nread > 0 => last.read_at = 0

\* a scan of a long content that found the stream at offset 2
C18_Witness ==
    /\ last.op = "validate_file"
    /\ last.file.pos = 2
    /\ last.nread = 1024
    /\ last.exc # None

(***************************************************************************)
(* Properties of the name operations.                                      *)
(***************************************************************************)
\* C19: for every id and file name, decrypt_filename applied to the name
\* generate_secure_filename made for them returns a text that contains the
\* id and the file name.
C19_NameRoundTrip ==
    (last.op = "decrypt_filename" /\ last.input = last.name)
        => /\ last.raised = None
           /\ Contains(last.value, last.file_id)
           /\ Contains(last.value, last.original_filename)

C19_Witness ==
    /\ last.op = "decrypt_filename"
    /\ last.input = last.name
    /\ last.original_filename = FnAccent
    /\ last.name.rest # <<>>
    /\ Contains(last.value, last.original_filename)

\* the input carries the base64 text of a token encrypted under the
\* current key
CarriesOwnToken(input) ==
    \E n \in ProducedNames(encryption_key) : input.b64 = n.b64

SameSecret == settings.SECRET_KEY = last.secret

\* C21: no step changes the key unless it constructs the storage on another
\* secret: an operation leaves the key alone, and an instance constructed on
\* the same secret, whatever else its settings hold and whether or not its
\* S3 client could be built, holds the key of the instance before it; so a
\* name generated on one instance is reversed on the other to a text that
\* contains the id and the file name.
C21_KeySurvivesRestart ==
    /\ [][settings'.SECRET_KEY = settings.SECRET_KEY
             => encryption_key' = encryption_key]_vars
    /\ []((last.op \in {"generate_secure_filename", "decrypt_filename"}
             /\ SameSecret)
            => /\ encryption_key = last.key
               /\ (last.op = "decrypt_filename" /\ last.input = last.name)
                    => /\ last.raised = None
                       /\ last.value # Unknown
                       /\ Contains(last.value, last.file_id)
                       /\ Contains(last.value, last.original_filename))

\* a name generated on the local backend is reversed by an instance that
\* was constructed afterwards with the S3 backend, on the same secret
C21_Witness ==
    /\ last.op = "decrypt_filename"
    /\ last.restarted
    /\ last.input = last.name
    /\ last.made_on = LocalType
    /\ storage_type = S3Type
    /\ s3_client # None
    /\ SameSecret
    /\ last.original_filename = FnPng
    /\ Contains(last.value, FnPng)

\* an object named `name` exists where delete_file of this instance looks
\* for it: in the bucket of the settings when the instance has the S3
\* backend and its client, in upload_dir otherwise
ExistsIn(fs, objs, name) ==
    IF storage_type = S3Type /\ s3_client # None
    THEN settings.S3_BUCKET # None
            /\ <<settings.S3_BUCKET[1], name>> \in DOMAIN objs
    ELSE name \in DOMAIN fs

\* C22: delete_file returns True exactly when an object of that name existed
\* and the call removed it, so that a second delete of the name and a delete
\* of a name never stored return False.
C22_DeleteReportsRemoval ==
    [][last'.op = "delete_file"
          => (last'.result <=> (/\ ExistsIn(localfs, s3objs, last'.name)
                                /\ ~ExistsIn(localfs', s3objs', last'.name)))]_vars

\* the hash verify_file_integrity would recompute differs from the expected
HashDiffers(name, expected) ==
    name \in DOMAIN localfs /\ TaggedHash(localfs[name]) # expected

\* C23: with the local backend verify_file_integrity returns False, and
\* raises nothing, whenever the named file is missing, cannot be read, or
\* has a tagged hash other than the expected one.
C23_LocalVerifyFalseOnFailure ==
    (/\ last.op = "verify_file_integrity"
     /\ last.backend = "local"
     /\ \/ last.name \notin DOMAIN localfs
        \/ last.io.kind # "ok"
        \/ HashDiffers(last.name, last.expected))
        => (last.raised = None /\ ~last.result)

C23_Witness ==
    /\ last.op = "verify_file_integrity"
    /\ last.backend = "local"
    /\ last.name \in DOMAIN localfs
    /\ ~HashDiffers(last.name, last.expected)
    /\ last.io.kind # "ok"
    /\ last.raised = None
    /\ ~last.result

\* C24: when the configuration in force resolves to the remote backend,
\* verify_file_integrity returns True for every name and every expected hash.
C24_RemoteVerifyOptimistic ==
    (last.op = "verify_file_integrity" /\ ConfiguredBackend = "s3")
        => (last.raised = None /\ last.result)

\* C25: get_presigned_url returns a URL only when the configuration in force
\* resolves to the remote backend, nothing with the local backend, and
\* nothing when the client raises ClientError.
C25_PresignOnlyRemote ==
    last.op = "get_presigned_url"
        => /\ last.result # None => ConfiguredBackend = "s3"
           /\ last.io.kind # "ok" => last.result = None

\* bytes.endswith / str.endswith
EndsWith(s, p) == Len(p) <= Len(s) /\ SubSeq(s, Len(s) - Len(p) + 1, Len(s)) = p

\* the extension of the upload's own file name, lower-cased
OriginalExtension(file) ==
    IF file.filename = None THEN <<>> ELSE Lower(Suffix(file.filename[1]))

\* C26: a successful store_file returns a name that ends with the lower-cased
\* extension of the original file name, the text 'sha256:' followed by the
\* hex digest of the whole content, and the number of bytes read, whatever
\* size the upload declared.
C26_StoreReturnsNameHashSize ==
    (last.op = "store_file" /\ last.ok)
        => /\ last.name.b64 # None
           /\ EndsWith(last.name.rest, OriginalExtension(last.file))
           /\ last.hash = TaggedHash(last.file.content)
           /\ last.size = Len(last.file.content)

C26_Witness ==
    /\ last.op = "store_file"
    /\ last.ok
    /\ last.backend = "s3"
    /\ last.file.filename = Some(FnPng)
    /\ last.name.rest = Lower(Suffix(FnPng))
    /\ last.file.pos = 2
    /\ last.file.size = Some(MAX_FILE_SIZE)
    /\ last.size = 8

\* C27: two stores of identical bytes return identical tagged hashes, and
\* verify_file_integrity on a local instance finds the hash a store returned
\* for a file whose bytes are still those that were stored.
C27_HashingIdempotent ==
    /\ \A i, j \in 1..Len(stored) :
         stored[i].content = stored[j].content => stored[i].hash = stored[j].hash
    /\ (/\ last.op = "verify_file_integrity"
        /\ last.backend = "local"
        /\ last.io.kind = "ok"
        /\ last.name \in DOMAIN localfs
        /\ \E i \in 1..Len(stored) :
             /\ stored[i].hash = last.expected
             /\ stored[i].content = localfs[last.name])
         => last.result

C27_Witness ==
    /\ Len(stored) = 2
    /\ stored[1].content = stored[2].content
    /\ stored[1].name # stored[2].name
    /\ stored[1].hash = stored[2].hash
    /\ last.op = "verify_file_integrity"
    /\ last.backend = "local"
    /\ last.name = stored[2].name
    /\ last.name \in DOMAIN localfs
    /\ last.expected = stored[1].hash
    /\ last.result

\* the bytes the backend store_file wrote to holds under the name of the
\* stored record r, in the directory fs and the object store objs
HeldBytes(r, fs, objs) ==
    IF r.backend = "s3"
    THEN IF r.bucket # None /\ <<r.bucket[1], r.name>> \in DOMAIN objs
         THEN Some(objs[<<r.bucket[1], r.name>>]) ELSE None
    ELSE IF r.name \in DOMAIN fs THEN Some(fs[r.name]) ELSE None

\* C28: in every interleaving of concurrent store_file calls, the calls that
\* succeed return pairwise distinct names, and the bytes stored under each
\* name are the bytes of the upload of the call that returned it.
C28_ConcurrentStoresIndependent ==
    \A i \in 1..Len(stored) :
      /\ HeldBytes(stored[i], localfs, s3objs) = Some(stored[i].content)
      /\ \A j \in 1..Len(stored) : j # i => stored[j].name # stored[i].name

\* C29: whatever the startup storage type and the per-call configuration, an
\* operation on a name store_file returned acts on the backend store_file
\* wrote to: verify_file_integrity finds the object there, and delete_file
\* removes it and returns True.
C29_LaterCallsTargetHolder ==
    [][last'.op \in {"delete_file", "verify_file_integrity"}
         => \A i \in 1..Len(stored) :
              (/\ stored[i].name = last'.name
               /\ HeldBytes(stored[i], localfs, s3objs) = Some(stored[i].content)
               /\ last'.io.kind = "ok")
                => /\ last'.op = "delete_file"
                        => /\ last'.result
                           /\ HeldBytes(stored[i], localfs', s3objs') = None
                   /\ (last'.op = "verify_file_integrity"
                         /\ last'.expected = stored[i].hash)
                        => last'.result]_vars

\* C30: a FileService.delete_file that fails with a database error leaves
\* the record and the stored bytes in place, so every record of the files
\* table references bytes that are still in storage.
C30_DeleteAllOrNothing ==
    /\ (last.op = "svc_delete_file"
          /\ last.exc = Some(DatabaseFailed("file_delete")))
         => last.file_id \in DOMAIN dbfiles
    /\ \A id \in DOMAIN dbfiles :
         ExistsIn(localfs, s3objs, dbfiles[id].stored_filename)

====
